---- MODULE Spec2Model ----
(***************************************************************************)
(* A model of legion's archetype storage (src/src/storage.rs) and of the   *)
(* World mutation protocol (src/src/world.rs).                             *)
(*                                                                         *)
(* Indices (archetype, chunk-set, chunk, component slot) are zero-based as *)
(* in the source; TLA+ sequences are one-based, so a vector v read at the  *)
(* source index i is v[i + 1].                                             *)
(*                                                                         *)
(* The operators compute what a call does: the state it leaves, what it    *)
(* returns, or the panic it ends in.  A call with several possible         *)
(* outcomes is a set of outcomes.  A panic ends the program: the actions   *)
(* take the returning outcomes only.  A debug_assert! failure is an        *)
(* outcome next to the release build's behaviour.                          *)
(* A read of a tag storage beyond its length (uninitialised memory) yields *)
(* any bit pattern of the tag type.                                        *)
(***************************************************************************)
EXTENDS Integers, Sequences, FiniteSets, TLC

VARIABLES
    worlds,            \* ids of the worlds that exist (a merged world is consumed)
    storage,           \* world id -> Storage
    entity_allocator,  \* world id -> EntityAllocator
    defrag_progress,   \* world id -> World::defrag_progress
    universe,          \* the shared block allocator: next entity index never issued
    borrow_state,      \* world id -> the borrowed cells of its accessors, held by callers
    component_layout,  \* an archetype description, the layout planned for it, its chunks
    tag_storage        \* one TagStorage

vars == <<worlds, storage, entity_allocator, defrag_progress, universe, borrow_state,
          component_layout, tag_storage>>

-----------------------------------------------------------------------------
(* Bounds of the model *)

\* entity indices the universe issues
MaxEntities == 4
\* create_entity calls over all worlds in the specifications of the moves
WideEntities == 3
\* create_entity calls, and the version an accessor is not driven above, in the
\* specification of defrag
DefragEntities == 4
DefragVersion == 4
\* an accessor's version is not driven above this
MaxVersion == 2
\* archetypes of a world
MaxArchetypes == 2
\* chunk-sets of a world, over all its archetypes
MaxSets == 4
\* chunks of a world, over all its chunk-sets
MaxChunks == 5
\* tuples in one insert batch
MaxBatch == 2
\* defrag budgets tried: None and 0 .. MaxBudget
MaxBudget == 1
\* the same three bounds for the specifications that make every call
SmallEntities == 2
SmallSets == 3
SmallChunks == 4

(* Program constants *)

MAX_CHUNK_SIZE == 16384
COMPONENT_STORAGE_ALIGNMENT == 64
\* size_of::<Entity>(): a u32 index and a u32 version
SizeOfEntity == 8
\* TagStorage::new: capacity of a storage of a sized tag type
TagInitialCapacity == 4
\* TagStorage::new: `!0`, the capacity of a storage of a zero-sized tag type,
\* written as the two's complement number it is
ZeroSizedCapacity == -1

-----------------------------------------------------------------------------
(* Component and tag types the model's programs use.  Pos is a component   *)
(* of 8192 bytes (two entities per chunk), Scale one of 16384 bytes (one   *)
(* entity per chunk).  Static is a zero-sized tag, Model a u32 tag.        *)

ComponentTypeIds == {"Pos", "Scale"}
TagTypeIds == {"Static", "Model"}

ComponentMeta_of(t) ==
    IF t = "Pos" THEN [size |-> 8192, align |-> 4]
                 ELSE [size |-> 16384, align |-> 8]

TagMeta_of(t) ==
    IF t = "Static" THEN [size |-> 0, align |-> 1]
                    ELSE [size |-> 4, align |-> 4]

\* values a program passes for a component / a tag; the n-th value of an entity
\* is Pos(n) and Scale(10 + n)
ComponentValues == 1..2
component_value(t, n) == IF t = "Pos" THEN n ELSE 10 + n
TagValues(t) == IF t = "Static" THEN {0} ELSE {1, 2}
\* bit patterns an uninitialised tag slot may hold: a zero-sized tag has one value
UninitTag(t) == IF t = "Static" THEN {0} ELSE {0, 1, 2}

Range(s) == {s[i] : i \in 1..Len(s)}
Max(a, b) == IF a >= b THEN a ELSE b
MaxOf(S) == IF S = {} THEN 0 ELSE CHOOSE x \in S : \A y \in S : y <= x
Contains(s, x) == \E i \in 1..Len(s) : s[i] = x

None == [index |-> -1, version |-> 0]
NoLocation == [archetype |-> -1, set |-> -1, chunk |-> -1, component |-> -1]
EntityLocation_new(a, s, c, i) == [archetype |-> a, set |-> s, chunk |-> c, component |-> i]

-----------------------------------------------------------------------------
(* ComponentWriter and ComponentAccessor *)

ComponentAccessor_new ==
    [data |-> <<>>, version |-> 0, changed |-> FALSE]

push_raw(accessor, component) ==
    [accessor EXCEPT !.data = Append(@, component),
                     !.version = @ + 1,
                     !.changed = TRUE]

\* Vec::swap_remove and the copy of the last element over the removed one
SwapRemoveSeq(s, index) ==
    [k \in 1..(Len(s) - 1) |-> IF k = index + 1 THEN s[Len(s)] ELSE s[k]]

\* a faulty swap_remove of one component vector: the last element is dropped
\* and the removed one stays (C2 tells it from writer_swap_remove)
writer_truncate(accessor, index, drop) ==
    [accessor EXCEPT !.data = SubSeq(@, 1, Len(@) - 1)]

writer_swap_remove(accessor, index, drop) ==
    [accessor EXCEPT !.data = SwapRemoveSeq(@, index)]

data_raw_mut(accessor) ==
    [accessor EXCEPT !.version = @ + 1, !.changed = TRUE]

-----------------------------------------------------------------------------
(* ComponentStorage: one chunk *)

alloc_storage(id, components, capacity) ==
    [id |-> id,
     capacity |-> capacity,
     entities |-> <<>>,
     component_info |-> [t \in Range(components) |-> ComponentAccessor_new],
     allocated |-> FALSE]

chunk_len(chunk) == Len(chunk.entities)
is_full(chunk) == chunk_len(chunk) >= chunk.capacity
is_empty(chunk) == Len(chunk.entities) = 0
is_allocated(chunk) == chunk.allocated

allocate(chunk) == [chunk EXCEPT !.allocated = TRUE]
free(chunk) == [chunk EXCEPT !.allocated = FALSE]

\* ComponentStorage::write: lazily allocates
write(chunk) == IF is_allocated(chunk) THEN chunk ELSE allocate(chunk)

\* a faulty swap_remove of a chunk: the entity swapped into `index` is never
\* reported, so its location is never patched (C1 tells it from swap_remove)
swap_remove_silent(chunk, index, drop) ==
    LET removed == [chunk EXCEPT
                      !.entities = SwapRemoveSeq(@, index),
                      !.component_info =
                          [t \in DOMAIN @ |-> writer_swap_remove(@[t], index, drop)]]
    IN  [chunk |-> IF is_empty(removed) THEN free(removed) ELSE removed,
         swapped |-> None]

\* a faulty swap_remove of a chunk: a chunk that becomes empty keeps its
\* allocation (C12 tells it from swap_remove)
swap_remove_keep(chunk, index, drop) ==
    LET removed == [chunk EXCEPT
                      !.entities = SwapRemoveSeq(@, index),
                      !.component_info =
                          [t \in DOMAIN @ |-> writer_swap_remove(@[t], index, drop)]]
    IN  IF Len(removed.entities) > index
        THEN [chunk |-> removed, swapped |-> removed.entities[index + 1]]
        ELSE [chunk |-> removed, swapped |-> None]

\* returns the chunk after the removal and the entity swapped into `index`
swap_remove(chunk, index, drop) ==
    LET removed == [chunk EXCEPT
                      !.entities = SwapRemoveSeq(@, index),
                      !.component_info =
                          [t \in DOMAIN @ |-> writer_swap_remove(@[t], index, drop)]]
    IN  IF Len(removed.entities) > index
        THEN [chunk |-> removed, swapped |-> removed.entities[index + 1]]
        ELSE [chunk |-> IF is_empty(removed) THEN free(removed) ELSE removed,
              swapped |-> None]

\* a faulty move_entity: the components of slot 0 are copied whatever the slot
\* of the entity (C5 tells it from chunk_move_entity)
chunk_move_first(source, target, index) ==
    LET allocated == IF is_allocated(target) THEN target ELSE allocate(target)
        entity == source.entities[index + 1]
        pushed == [allocated EXCEPT
                     !.entities = Append(@, entity),
                     !.component_info =
                         [t \in DOMAIN @ |->
                            IF t \in DOMAIN source.component_info
                            THEN push_raw(@[t], source.component_info[t].data[1])
                            ELSE @[t]]]
        removed == swap_remove(source, index, FALSE)
    IN  [source |-> removed.chunk, target |-> pushed, swapped |-> removed.swapped]

\* ComponentStorage::move_entity: the source and the target after the move
\* the component values a chunk stores, each with the entity that owns it
stored(chunk) ==
    UNION {{<<chunk.entities[i], t, chunk.component_info[t].data[i]>> :
               i \in 1..Len(chunk.component_info[t].data)} :
           t \in DOMAIN chunk.component_info}

\* the values on which ComponentStorage::swap_remove runs the drop function
swap_remove_dropped(chunk, index, drop) ==
    IF drop
    THEN {<<chunk.entities[index + 1], t, chunk.component_info[t].data[index + 1]>> :
             t \in DOMAIN chunk.component_info}
    ELSE {}

\* a faulty account of move_entity: every component of the entity is dropped in
\* place, those moved to the target too (C27 tells it from move_entity_dropped)
move_entity_dropped_all(source, target, index) ==
    {<<source.entities[index + 1], t, source.component_info[t].data[index + 1]>> :
        t \in DOMAIN source.component_info}

\* the values on which ComponentStorage::move_entity runs the drop function:
\* drop_in_place for the types the target lacks, then swap_remove(index, false)
move_entity_dropped(source, target, index) ==
    {<<source.entities[index + 1], t, source.component_info[t].data[index + 1]>> :
        t \in DOMAIN source.component_info \ DOMAIN target.component_info}
    \cup swap_remove_dropped(source, index, FALSE)

\* the values on which Drop for ComponentStorage runs the drop function
storage_dropped(chunk) ==
    IF is_allocated(chunk)
    THEN UNION {{<<chunk.entities[i], t, chunk.component_info[t].data[i]>> :
                    i \in 1..chunk_len(chunk)} :
                t \in DOMAIN chunk.component_info}
    ELSE {}

chunk_move_entity(source, target, index) ==
    LET allocated == IF is_allocated(target) THEN target ELSE allocate(target)
        entity == source.entities[index + 1]
        pushed == [allocated EXCEPT
                     !.entities = Append(@, entity),
                     !.component_info =
                         [t \in DOMAIN @ |->
                            IF t \in DOMAIN source.component_info
                            THEN push_raw(@[t], source.component_info[t].data[index + 1])
                            ELSE @[t]]]
        removed == swap_remove(source, index, FALSE)
    IN  [source |-> removed.chunk, target |-> pushed, swapped |-> removed.swapped]

-----------------------------------------------------------------------------
(* TagStorage: the allocation of one tag type *)

\* what a reader gets when there is nothing to read; an unwritten slot
NoValue == -1

\* TagStorage::new: a sized type gets an allocation of 4 uninitialised slots
TagStorage_new(element) ==
    [data |-> IF element.size > 0 THEN [i \in 1..TagInitialCapacity |-> NoValue] ELSE <<>>,
     capacity |-> IF element.size = 0 THEN ZeroSizedCapacity ELSE TagInitialCapacity,
     len |-> 0,
     element |-> element]

\* a grow that hands out a fresh allocation and copies nothing
TagStorage_grow_fresh(tags) ==
    IF tags.element.size = 0
    THEN [panic |-> "capacity overflow", tags |-> tags]
    ELSE [panic |-> "none",
          tags |-> [tags EXCEPT !.capacity = 2 * tags.capacity,
                                !.data = [i \in 1..(2 * tags.capacity) |-> NoValue]]]

\* TagStorage::grow: realloc to twice the capacity keeps the old bytes
TagStorage_grow(tags) ==
    IF tags.element.size = 0
    THEN [panic |-> "capacity overflow", tags |-> tags]
    ELSE [panic |-> "none",
          tags |-> [tags EXCEPT !.capacity = 2 * tags.capacity,
                                !.data = @ \o [i \in 1..tags.capacity |-> NoValue]]]

\* TagStorage::push_raw
TagStorage_push_raw(tags, value) ==
    LET grown == IF tags.len = tags.capacity THEN TagStorage_grow(tags)
                 ELSE [panic |-> "none", tags |-> tags]
    IN  IF grown.panic # "none" THEN grown
        ELSE [panic |-> "none",
              tags |-> [grown.tags EXCEPT
                          !.data = IF grown.tags.element.size > 0
                                   THEN [@ EXCEPT ![grown.tags.len + 1] = value]
                                   ELSE @,
                          !.len = @ + 1]]

\* TagStorage::data_slice: len elements from the start of the allocation; every
\* element of a zero-sized type is its one value
TagStorage_data_slice(tags) ==
    [i \in 1..tags.len |-> IF tags.element.size > 0 THEN tags.data[i] ELSE 0]

-----------------------------------------------------------------------------
(* ArchetypeData *)

\* an align_up that leaves the address where it is
align_up_none(addr, align) == addr

\* align_up: (addr + (align - 1)) & align.wrapping_neg(); an alignment is a power
\* of two, so the mask clears the remainder of the division by align
align_up(addr, align) ==
    (addr + (align - 1)) - ((addr + (align - 1)) % align)

\* a capacity that is not clamped to one entity
max_entity_capacity_unclamped(metas) ==
    MAX_CHUNK_SIZE \div Max(MaxOf({metas[i].size : i \in 1..Len(metas)}), SizeOfEntity)

\* the entity capacity ArchetypeData::new gives the chunks of a description whose
\* components have the metas `metas`
max_entity_capacity(metas) ==
    Max(1, MAX_CHUNK_SIZE \div
           Max(MaxOf({metas[i].size : i \in 1..Len(metas)}), SizeOfEntity))

\* the layout loop of ArchetypeData::new from component i on: the offsets planned
\* so far and the running data_capacity
RECURSIVE component_data_offsets(_, _, _, _, _)
component_data_offsets(metas, i, offsets, data_capacity, capacity) ==
    IF i > Len(metas) THEN [data_layout |-> offsets, data_capacity |-> data_capacity]
    ELSE LET offset == align_up(align_up(data_capacity, COMPONENT_STORAGE_ALIGNMENT),
                                metas[i].align)
         IN  component_data_offsets(metas, i + 1,
                                    Append(offsets, [type |-> i, offset |-> offset,
                                                     meta |-> metas[i]]),
                                    offset + metas[i].size * capacity, capacity)

\* the ComponentStorageLayout that ArchetypeData::new builds
ComponentStorageLayout_new(metas) ==
    LET planned == component_data_offsets(metas, 1, <<>>, 0, max_entity_capacity(metas))
    IN  [capacity |-> max_entity_capacity(metas),
         alloc_layout |-> [size |-> planned.data_capacity,
                           align |-> COMPONENT_STORAGE_ALIGNMENT],
         data_layout |-> planned.data_layout]

\* ComponentStorageLayout::alloc_storage: an unallocated chunk of the layout
ComponentStorageLayout_alloc_storage(layout) ==
    [capacity |-> layout.capacity,
     entities |-> <<>>,
     component_offsets |-> [i \in 1..Len(layout.data_layout) |->
                              layout.data_layout[i].offset],
     component_layout |-> layout.alloc_layout,
     component_info |-> [i \in 1..Len(layout.data_layout) |->
                           [capacity |-> layout.capacity,
                            count |-> 0,
                            element_size |-> layout.data_layout[i].meta.size,
                            version |-> 0,
                            changed |-> FALSE]]]

entity_capacity(components) ==
    max_entity_capacity([i \in 1..Len(components) |-> ComponentMeta_of(components[i])])

ArchetypeData_new(id, desc) ==
    [id |-> id,
     desc |-> desc,
     tags |-> [t \in Range(desc.tags) |-> <<>>],
     capacity |-> entity_capacity(desc.components),
     chunk_sets |-> <<>>]

\* ArchetypeData::alloc_chunk_set with an initializer that pushes `values`
\* (tag type -> value) onto the storages of those types
alloc_chunk_set(arch, values) ==
    [arch EXCEPT !.chunk_sets = Append(@, <<>>),
                 !.tags = [t \in DOMAIN @ |->
                             IF t \in DOMAIN values THEN Append(@[t], values[t]) ELSE @[t]]]

\* Tags::validate
validate(arch) == \A t \in DOMAIN arch.tags : Len(arch.tags[t]) = Len(arch.chunk_sets)

\* a faulty search for a free chunk: the last chunk that is not full (C26 tells
\* it from first_free)
first_free_last(chunks) ==
    IF \E i \in 1..Len(chunks) : ~is_full(chunks[i])
    THEN (CHOOSE i \in 1..Len(chunks) :
              ~is_full(chunks[i]) /\ \A k \in (i + 1)..Len(chunks) : is_full(chunks[k])) - 1
    ELSE -1

first_free(chunks) ==
    IF \E i \in 1..Len(chunks) : ~is_full(chunks[i])
    THEN (CHOOSE i \in 1..Len(chunks) :
              ~is_full(chunks[i]) /\ \A k \in 1..(i - 1) : is_full(chunks[k])) - 1
    ELSE -1

\* the archetype after the call and the chunk index returned
get_free_chunk(arch, set_index) ==
    LET chunks == arch.chunk_sets[set_index + 1]
        found == first_free(chunks)
        count == Len(chunks)
    IN  IF found >= 0
        THEN [arch |-> arch, index |-> found]
        ELSE [arch |-> [arch EXCEPT !.chunk_sets[set_index + 1] =
                            Append(@, alloc_storage(<<arch.id, set_index, count>>,
                                                    arch.desc.components, arch.capacity))],
              index |-> count]

-----------------------------------------------------------------------------
(* Storage *)

Storage_new == [component_types |-> <<>>, tag_types |-> <<>>, archetypes |-> <<>>]

\* the storage after the call; the new archetype's index is the old archetype count
alloc_archetype(st, world_id, desc) ==
    [component_types |-> Append(st.component_types, desc.components),
     tag_types |-> Append(st.tag_types, desc.tags),
     archetypes |-> Append(st.archetypes,
                           ArchetypeData_new(<<world_id, Len(st.archetypes)>>, desc))]

\* a push that appends the archetype and no signature
Storage_push_unsigned(st, archetype) ==
    [st EXCEPT !.archetypes = Append(@, archetype)]

Storage_push(st, archetype) ==
    [component_types |-> Append(st.component_types, archetype.desc.components),
     tag_types |-> Append(st.tag_types, archetype.desc.tags),
     archetypes |-> Append(st.archetypes, archetype)]

-----------------------------------------------------------------------------
(* EntityAllocator and the universe's block allocator.  An allocator keeps,  *)
(* per entity index it owns, the current version (0: not owned) and the      *)
(* location; freed indices are reused, newest first, with the version that   *)
(* delete_entity incremented.                                                *)

EntityIndices == 0..(MaxEntities - 1)

EntityAllocator_new ==
    [versions |-> [i \in EntityIndices |-> 0],
     locations |-> [i \in EntityIndices |-> NoLocation],
     free |-> <<>>,
     buffer |-> <<>>]

is_alive(al, entity) ==
    /\ entity.index \in EntityIndices
    /\ entity.version > 0
    /\ al.versions[entity.index] = entity.version
    /\ ~Contains(al.free, entity.index)

\* the allocator and the universe after the call, and the entity created
create_entity(al, un) ==
    IF al.free # <<>>
    THEN LET index == al.free[Len(al.free)]
             entity == [index |-> index, version |-> al.versions[index]]
         IN  [al |-> [al EXCEPT !.free = SubSeq(@, 1, Len(@) - 1),
                                !.buffer = Append(@, entity)],
              un |-> un,
              entity |-> entity]
    ELSE LET entity == [index |-> un, version |-> 1]
         IN  [al |-> [al EXCEPT !.versions[un] = 1,
                                !.buffer = Append(@, entity)],
              un |-> un + 1,
              entity |-> entity]

\* the allocator after the call and the location the entity had (NoLocation: not alive)
delete_entity(al, entity) ==
    IF is_alive(al, entity)
    THEN [al |-> [al EXCEPT !.versions[entity.index] = @ + 1,
                            !.free = Append(@, entity.index),
                            !.locations[entity.index] = NoLocation],
          location |-> al.locations[entity.index]]
    ELSE [al |-> al, location |-> NoLocation]

get_location(al, index) ==
    IF index \in EntityIndices THEN al.locations[index] ELSE NoLocation

set_location(al, index, location) == [al EXCEPT !.locations[index] = location]

\* a faulty clear_allocation_buffer: the entities of earlier batches stay in the
\* buffer (C20 tells it from clear_allocation_buffer)
clear_allocation_buffer_keep(al) == al

clear_allocation_buffer(al) == [al EXCEPT !.buffer = <<>>]

allocator_merge(al, other) ==
    [versions |-> [i \in EntityIndices |-> Max(al.versions[i], other.versions[i])],
     locations |-> [i \in EntityIndices |->
                      IF other.versions[i] > 0 THEN other.locations[i] ELSE al.locations[i]],
     free |-> al.free \o other.free,
     buffer |-> al.buffer]

-----------------------------------------------------------------------------
(* Filters *)

\* ComponentTupleFilter::is_match and the tag tuple's archetype filter
tuple_is_match(types, item) ==
    Len(types) = Len(item) /\ \A i \in 1..Len(types) : Contains(item, types[i])

\* an archetype filter that does not compare the lengths
dynamic_is_match_unsized(item, existing, add, remove) ==
    \A i \in 1..Len(item) :
       /\ ~Contains(remove, item[i])
       /\ (Contains(existing, item[i]) \/ Contains(add, item[i]))

\* DynamicComponentLayout::is_match and DynamicTagLayout::is_match (archetype filter)
dynamic_is_match(item, existing, add, remove) ==
    /\ Len(item) = Len(existing) + Len(add) - Len(remove)
    /\ \A i \in 1..Len(item) :
          /\ ~Contains(remove, item[i])
          /\ (Contains(existing, item[i]) \/ Contains(add, item[i]))

\* ArchetypeDescription::is_match
description_is_match(desc, tags, components) ==
    /\ Len(tags) = Len(desc.tags)
    /\ \A i \in 1..Len(desc.tags) : Contains(tags, desc.tags[i])
    /\ Len(components) = Len(desc.components)
    /\ \A i \in 1..Len(desc.components) : Contains(components, desc.components[i])

\* the first of the indices at which a filter matches, or -1 (None)
first_index(matching) ==
    IF matching = {} THEN -1
    ELSE CHOOSE i \in matching : \A k \in matching : i <= k

\* a faulty tailor_archetype: the removed types are kept (C6 tells it from tailor)
tailor_keep(existing, add, remove) == existing \o add

\* DynamicComponentLayout::tailor_archetype and DynamicTagLayout::tailor_archetype
tailor(existing, add, remove) ==
    SelectSeq(existing, LAMBDA t : ~Contains(remove, t)) \o add

-----------------------------------------------------------------------------
(* Reads through the World *)

chunk_at(st, location) ==
    st.archetypes[location.archetype + 1].chunk_sets[location.set + 1][location.chunk + 1]

has_chunk(st, location) ==
    /\ location.archetype >= 0 /\ location.archetype < Len(st.archetypes)
    /\ location.set >= 0
    /\ location.set < Len(st.archetypes[location.archetype + 1].chunk_sets)
    /\ location.chunk >= 0
    /\ location.chunk < Len(st.archetypes[location.archetype + 1].chunk_sets[location.set + 1])

\* World::get_component: the value, or NoValue for None
get_component(st, al, entity, t) ==
    IF ~is_alive(al, entity) THEN NoValue
    ELSE LET location == get_location(al, entity.index)
         IN  IF location = NoLocation \/ ~has_chunk(st, location) THEN NoValue
             ELSE LET chunk == chunk_at(st, location)
                  IN  IF t \notin DOMAIN chunk.component_info THEN NoValue
                      ELSE IF location.component >= Len(chunk.component_info[t].data)
                           THEN NoValue
                           ELSE chunk.component_info[t].data[location.component + 1]

\* World::get_tag: the value, or NoValue for None
get_tag(st, al, entity, t) ==
    IF ~is_alive(al, entity) THEN NoValue
    ELSE LET location == get_location(al, entity.index)
         IN  IF location = NoLocation
                \/ location.archetype >= Len(st.archetypes) THEN NoValue
             ELSE LET archetype == st.archetypes[location.archetype + 1]
                  IN  IF t \notin DOMAIN archetype.tags THEN NoValue
                      ELSE IF location.set >= Len(archetype.tags[t]) THEN NoValue
                           ELSE archetype.tags[t][location.set + 1]

\* the storage with the accessor of type t in the chunk at `location` replaced
overwrite_accessor(st, location, t, accessor) ==
    [st EXCEPT !.archetypes[location.archetype + 1]
                   .chunk_sets[location.set + 1][location.chunk + 1]
                   .component_info[t] = accessor]

\* a faulty get_component_mut without the liveness test: a stale handle reaches
\* the entity that reuses its index (C18 tells it from get_component_mut)
get_component_mut_unchecked(st, al, entity, t) ==
    LET location == get_location(al, entity.index)
    IN  IF location = NoLocation \/ ~has_chunk(st, location)
        THEN [value |-> NoValue, st |-> st]
        ELSE LET chunk == chunk_at(st, location)
             IN  IF t \notin DOMAIN chunk.component_info
                 THEN [value |-> NoValue, st |-> st]
                 ELSE LET touched == overwrite_accessor(st, location, t,
                                         data_raw_mut(chunk.component_info[t]))
                      IN  IF location.component >= Len(chunk.component_info[t].data)
                          THEN [value |-> NoValue, st |-> touched]
                          ELSE [value |-> chunk.component_info[t].data[location.component + 1],
                                st |-> touched]

\* World::get_component_mut: the value behind the exclusive reference (NoValue
\* for None) and the storage after the call; data_slice_mut runs before the
\* slot is looked up
get_component_mut(st, al, entity, t) ==
    IF ~is_alive(al, entity) THEN [value |-> NoValue, st |-> st]
    ELSE LET location == get_location(al, entity.index)
         IN  IF location = NoLocation \/ ~has_chunk(st, location)
             THEN [value |-> NoValue, st |-> st]
             ELSE LET chunk == chunk_at(st, location)
                  IN  IF t \notin DOMAIN chunk.component_info
                      THEN [value |-> NoValue, st |-> st]
                      ELSE LET touched == overwrite_accessor(st, location, t,
                                              data_raw_mut(chunk.component_info[t]))
                           IN  IF location.component >= Len(chunk.component_info[t].data)
                               THEN [value |-> NoValue, st |-> touched]
                               ELSE [value |->
                                        chunk.component_info[t].data[location.component + 1],
                                     st |-> touched]

\* a changed reader that never marks the slice unchanged
get_component_changed_unmarked(st, al, entity, t, mark_unchanged, mutable) ==
    IF ~is_alive(al, entity) THEN [value |-> NoValue, st |-> st]
    ELSE LET location == get_location(al, entity.index)
         IN  IF location = NoLocation \/ ~has_chunk(st, location)
             THEN [value |-> NoValue, st |-> st]
             ELSE LET chunk == chunk_at(st, location)
                  IN  IF t \notin DOMAIN chunk.component_info
                      THEN [value |-> NoValue, st |-> st]
                      ELSE
                      LET accessor == chunk.component_info[t]
                          borrowed == IF mutable THEN data_raw_mut(accessor) ELSE accessor
                      IN  IF ~accessor.changed THEN [value |-> NoValue, st |-> st]
                          ELSE IF location.component >= Len(accessor.data)
                          THEN [value |-> NoValue,
                                st |-> overwrite_accessor(st, location, t, borrowed)]
                          ELSE [value |-> accessor.data[location.component + 1],
                                st |-> overwrite_accessor(st, location, t, borrowed)]

\* World::get_component_changed and get_component_changed_mut (`mutable`): the
\* value (NoValue for None) and the storage after the call
get_component_changed(st, al, entity, t, mark_unchanged, mutable) ==
    IF ~is_alive(al, entity) THEN [value |-> NoValue, st |-> st]
    ELSE LET location == get_location(al, entity.index)
         IN  IF location = NoLocation \/ ~has_chunk(st, location)
             THEN [value |-> NoValue, st |-> st]
             ELSE LET chunk == chunk_at(st, location)
                  IN  IF t \notin DOMAIN chunk.component_info
                      THEN [value |-> NoValue, st |-> st]
                      ELSE
                      LET accessor == chunk.component_info[t]
                          borrowed == IF mutable THEN data_raw_mut(accessor) ELSE accessor
                      IN  IF ~accessor.changed THEN [value |-> NoValue, st |-> st]
                          ELSE IF location.component >= Len(accessor.data)
                          THEN [value |-> NoValue,
                                st |-> overwrite_accessor(st, location, t, borrowed)]
                          ELSE [value |-> accessor.data[location.component + 1],
                                st |-> overwrite_accessor(st, location, t,
                                          IF mark_unchanged
                                          THEN [borrowed EXCEPT !.changed = FALSE]
                                          ELSE borrowed)]

-----------------------------------------------------------------------------
(* AtomicRefCell: the borrow cell of a component accessor's pointer *)

\* the cell of the accessor of type t in the chunk at `location`
cell_of(location, t) ==
    [archetype |-> location.archetype, set |-> location.set,
     chunk |-> location.chunk, type |-> t]

\* the borrow count of a cell among the borrowed cells: 0 when free, n > 0 when
\* n shared references are out, -1 when an exclusive reference is out
borrow_count(cells, cell) ==
    IF \E c \in cells : c.cell = cell
    THEN (CHOOSE c \in cells : c.cell = cell).count
    ELSE 0

set_borrow_count(cells, cell, count) ==
    {c \in cells : c.cell # cell} \cup
    (IF count = 0 THEN {} ELSE {[cell |-> cell, count |-> count]})

\* AtomicRefCell::get: a shared reference, or a panic while an exclusive one is out
AtomicRefCell_get(cells, cell) ==
    IF borrow_count(cells, cell) < 0
    THEN [cells |-> cells, panic |-> "already mutably borrowed"]
    ELSE [cells |-> set_borrow_count(cells, cell, borrow_count(cells, cell) + 1),
          panic |-> "none"]

\* AtomicRefCell::get_mut: an exclusive reference, or a panic while any reference is out
AtomicRefCell_get_mut(cells, cell) ==
    IF borrow_count(cells, cell) # 0
    THEN [cells |-> cells, panic |-> "already borrowed"]
    ELSE [cells |-> set_borrow_count(cells, cell, -1), panic |-> "none"]

\* Drop of a Ref or a RefMut
release(cells, cell) ==
    IF borrow_count(cells, cell) > 0
    THEN set_borrow_count(cells, cell, borrow_count(cells, cell) - 1)
    ELSE set_borrow_count(cells, cell, 0)

\* the readers of World get as far as the accessor of type t
reaches_accessor(st, al, entity, t) ==
    /\ is_alive(al, entity)
    /\ get_location(al, entity.index) # NoLocation
    /\ has_chunk(st, get_location(al, entity.index))
    /\ t \in DOMAIN chunk_at(st, get_location(al, entity.index)).component_info

\* World::get_component while `cells` are borrowed: the value behind the Ref the
\* caller keeps (NoValue for None), and the borrowed cells after the call
world_get_component(st, al, cells, entity, t) ==
    IF ~reaches_accessor(st, al, entity, t)
    THEN [value |-> NoValue, st |-> st, cells |-> cells, panic |-> "none"]
    ELSE LET borrow == AtomicRefCell_get(cells, cell_of(get_location(al, entity.index), t))
             value == get_component(st, al, entity, t)
         IN  IF borrow.panic # "none"
             THEN [value |-> NoValue, st |-> st, cells |-> cells, panic |-> borrow.panic]
             ELSE [value |-> value, st |-> st,
                   cells |-> IF value = NoValue THEN cells ELSE borrow.cells,
                   panic |-> "none"]

\* World::get_component_mut while `cells` are borrowed: get_mut comes before the
\* version and the changed flag are written
world_get_component_mut(st, al, cells, entity, t) ==
    IF ~reaches_accessor(st, al, entity, t)
    THEN [value |-> NoValue, st |-> st, cells |-> cells, panic |-> "none"]
    ELSE LET borrow == AtomicRefCell_get_mut(cells, cell_of(get_location(al, entity.index), t))
             r == get_component_mut(st, al, entity, t)
         IN  IF borrow.panic # "none"
             THEN [value |-> NoValue, st |-> st, cells |-> cells, panic |-> borrow.panic]
             ELSE [value |-> r.value, st |-> r.st,
                   cells |-> IF r.value = NoValue THEN cells ELSE borrow.cells,
                   panic |-> "none"]

-----------------------------------------------------------------------------
(* World: archetype and chunk-set resolution *)

\* the indices of the signature table `types` whose slice a filter matches
matching_indices(types, existing, add, remove, dynamic) ==
    {i \in 0..(Len(types) - 1) :
        IF dynamic THEN dynamic_is_match(types[i + 1], existing, add, remove)
                   ELSE tuple_is_match(add, types[i + 1])}

\* World::find_archetype over the signature tables; tag_matches and
\* component_matches are the indices the tag filter and the component filter match
find_archetype(st, tag_matches, component_matches) ==
    first_index((tag_matches \cap component_matches) \cap 0..(Len(st.archetypes) - 1))

\* the order in which a tag tuple lists its types
TagOrder == <<"Static", "Model">>
tag_tuple(tags) == SelectSeq(TagOrder, LAMBDA t : t \in DOMAIN tags)

\* World::find_chunk_set with a tag tuple as the filter: the zipped tag slices are
\* compared with the tuple; the empty tuple matches every chunk-set
tuple_find_chunk_set(arch, tags) ==
    IF DOMAIN tags = {}
    THEN (IF Len(arch.chunk_sets) > 0 THEN 0 ELSE -1)
    ELSE first_index({i \in 0..(Len(arch.chunk_sets) - 1) :
                         \A t \in DOMAIN tags :
                            i < Len(arch.tags[t]) /\ arch.tags[t][i + 1] = tags[t]})

\* the values a read of a tag storage at `index` may give
tag_read(store, index, t) ==
    IF index < Len(store) THEN {store[index + 1]} ELSE UninitTag(t)

\* DynamicTagLayout::is_match on a candidate chunk-set may return true
may_match(arch, chunk_index, current, add_tags) ==
    /\ \A t \in DOMAIN current : current[t] \in tag_read(arch.tags[t], chunk_index, t)
    /\ \A t \in DOMAIN add_tags : add_tags[t] \in tag_read(arch.tags[t], chunk_index, t)

\* DynamicTagLayout::is_match on a candidate chunk-set may return false
may_fail(arch, chunk_index, current, add_tags) ==
    \/ \E t \in DOMAIN current :
          \E v \in tag_read(arch.tags[t], chunk_index, t) : v # current[t]
    \/ \E t \in DOMAIN add_tags :
          \E v \in tag_read(arch.tags[t], chunk_index, t) : v # add_tags[t]

\* World::find_chunk_set with the DynamicTagLayout as the filter: the indices it
\* may return (-1: None)
dynamic_find_chunk_set(arch, current, add_tags) ==
    LET n == Len(arch.chunk_sets) IN
    {j \in 0..(n - 1) : /\ may_match(arch, j, current, add_tags)
                        /\ \A k \in 0..(j - 1) : may_fail(arch, k, current, add_tags)}
    \cup (IF \A k \in 0..(n - 1) : may_fail(arch, k, current, add_tags) THEN {-1} ELSE {})

\* The values DynamicTagLayout::is_match reads for the tags the entity keeps: the
\* source archetype's tag storages at the index DynamicTagLayout::chunk, which
\* find_chunk_with_delta sets to the source location's chunk index
source_tag_values(source_archetype, source_location, remove_tags) ==
    LET retained == {t \in Range(source_archetype.desc.tags) : ~Contains(remove_tags, t)}
    IN  {f \in [retained -> {0, 1, 2}] :
            \A t \in retained :
                f[t] \in tag_read(source_archetype.tags[t], source_location.chunk, t)}

\* Tags::tag_set(chunk): one value per tag storage, read through the storage's
\* base pointer (the `chunk` parameter is used by the debug assertion only)
tag_set(tags, chunk) ==
    {f \in [DOMAIN tags -> {0, 1, 2}] : \A t \in DOMAIN tags : f[t] \in tag_read(tags[t], 0, t)}

tag_set_asserts(tags, chunk) == \A t \in DOMAIN tags : chunk < Len(tags[t])

Restrict(f, S) == [x \in S |-> f[x]]
Override(f, g) == [x \in DOMAIN f \cup DOMAIN g |-> IF x \in DOMAIN g THEN g[x] ELSE f[x]]

\* World::find_chunk_with_delta: the outcomes (the storage after the call, the
\* target archetype and chunk-set, or a panic).  add_tags maps each added tag
\* type to its value.
find_chunk_with_delta(st, world_id, source_location, add_components, remove_components, add_tags, remove_tags) ==
    LET source_archetype == st.archetypes[source_location.archetype + 1]
        existing_c == source_archetype.desc.components
        existing_t == source_archetype.desc.tags
        add_t == tag_tuple(add_tags)
        found == find_archetype(st,
                    matching_indices(st.tag_types, existing_t, add_t, remove_tags, TRUE),
                    matching_indices(st.component_types, existing_c, add_components,
                                     remove_components, TRUE))
        description == [tags |-> tailor(existing_t, add_t, remove_tags),
                        components |-> tailor(existing_c, add_components, remove_components)]
        allocated == IF found >= 0 THEN st ELSE alloc_archetype(st, world_id, description)
        archetype == IF found >= 0 THEN found ELSE Len(st.archetypes)
        \* slow path
        created(values) ==
            [allocated EXCEPT !.archetypes[archetype + 1] = alloc_chunk_set(@, values)]
        slow ==
            {[st |-> created(Override(Restrict(v, DOMAIN v \ Range(remove_tags)), add_tags)),
              archetype |-> archetype,
              set |-> Len(allocated.archetypes[archetype + 1].chunk_sets),
              panic |-> "none"] : v \in tag_set(source_archetype.tags, source_location.chunk)}
            \cup (IF tag_set_asserts(source_archetype.tags, source_location.chunk) THEN {}
                  ELSE {[st |-> allocated, archetype |-> archetype, set |-> -1,
                         panic |-> "chunk index out of bounds"]})
        sets(current) ==
            IF found >= 0
            THEN dynamic_find_chunk_set(st.archetypes[found + 1], current, add_tags)
            ELSE {-1}
    IN  UNION {
          UNION { IF j >= 0
                  THEN {[st |-> st, archetype |-> archetype, set |-> j, panic |-> "none"]}
                  ELSE slow : j \in sets(current) }
          : current \in source_tag_values(source_archetype, source_location, remove_tags) }

\* World::move_entity: the outcomes (storage and allocator after the move, the
\* location of the entity in its target chunk, or a panic)
world_move_entity(st, al, world_id, entity, add_components, remove_components, add_tags, remove_tags) ==
    LET location == get_location(al, entity.index) IN
    IF location = NoLocation
    THEN {[st |-> st, al |-> al, target |-> NoLocation, panic |-> "entity not found"]}
    ELSE
    { IF d.panic # "none"
      THEN [st |-> d.st, al |-> al, target |-> NoLocation, panic |-> d.panic]
      ELSE
        LET current_chunk == chunk_at(d.st, location)
            got == get_free_chunk(d.st.archetypes[d.archetype + 1], d.set)
            target_chunk == got.arch.chunk_sets[d.set + 1][got.index + 1]
            moved == chunk_move_entity(current_chunk, target_chunk, location.component)
            target == EntityLocation_new(d.archetype, d.set, got.index,
                                         chunk_len(moved.target) - 1)
            st1 == [d.st EXCEPT !.archetypes[d.archetype + 1] = got.arch]
            st2 == [st1 EXCEPT
                      !.archetypes[location.archetype + 1]
                          .chunk_sets[location.set + 1][location.chunk + 1] = moved.source]
            st3 == [st2 EXCEPT
                      !.archetypes[d.archetype + 1]
                          .chunk_sets[d.set + 1][got.index + 1] = moved.target]
            al1 == IF moved.swapped # None
                   THEN set_location(al, moved.swapped.index, location)
                   ELSE al
        IN  [st |-> st3, al |-> set_location(al1, entity.index, target),
             target |-> target, panic |-> "none"]
      : d \in find_chunk_with_delta(st, world_id, location, add_components,
                                    remove_components, add_tags, remove_tags) }

-----------------------------------------------------------------------------
(* World::insert *)

\* ComponentTupleSet::write: creates an entity per tuple and pushes it and its
\* components, until the source is empty or the chunk is full
RECURSIVE source_write(_)
source_write(r) ==
    IF r.items = <<>> \/ is_full(r.chunk)
    THEN r
    ELSE LET c == create_entity(r.al, r.un)
             item == Head(r.items)
         IN  source_write(
               [al |-> c.al,
                un |-> c.un,
                chunk |-> [r.chunk EXCEPT
                             !.entities = Append(@, c.entity),
                             !.component_info =
                                 [t \in DOMAIN @ |->
                                    IF t \in DOMAIN item THEN push_raw(@[t], item[t])
                                                         ELSE @[t]]],
                items |-> Tail(r.items)])

\* the loop of World::insert that records the locations of the entities written
\* at the slots from `start` on
record_locations(al, chunk, archetype_index, chunk_set_index, chunk_index, start) ==
    [al EXCEPT !.locations =
        [i \in EntityIndices |->
            IF \E k \in (start + 1)..Len(chunk.entities) : chunk.entities[k].index = i
            THEN EntityLocation_new(
                    archetype_index, chunk_set_index, chunk_index,
                    (CHOOSE k \in (start + 1)..Len(chunk.entities) :
                         chunk.entities[k].index = i) - 1)
            ELSE @[i]]]

\* the while loop of World::insert over one archetype; r = [arch, al, un, items]
RECURSIVE insert_components(_, _, _)
insert_components(r, archetype_index, chunk_set_index) ==
    IF r.items = <<>>
    THEN r
    ELSE LET got == get_free_chunk(r.arch, chunk_set_index)
             chunk == got.arch.chunk_sets[chunk_set_index + 1][got.index + 1]
             written == source_write([al |-> r.al, un |-> r.un,
                                      chunk |-> write(chunk), items |-> r.items])
             start == chunk_len(written.chunk) - (Len(r.items) - Len(written.items))
         IN  insert_components(
               [arch |-> [got.arch EXCEPT
                            !.chunk_sets[chunk_set_index + 1][got.index + 1] = written.chunk],
                al |-> record_locations(written.al, written.chunk, archetype_index,
                                        chunk_set_index, got.index, start),
                un |-> written.un,
                items |-> written.items],
               archetype_index, chunk_set_index)

\* World::insert: the storage, allocator and universe after the call
world_insert(st, al, un, world_id, tags, layout, items) ==
    LET found == find_archetype(st,
                    matching_indices(st.tag_types, <<>>, tag_tuple(tags), <<>>, FALSE),
                    matching_indices(st.component_types, <<>>, layout, <<>>, FALSE))
        st1 == IF found >= 0 THEN st
               ELSE alloc_archetype(st, world_id,
                                    [tags |-> tag_tuple(tags), components |-> layout])
        archetype_index == IF found >= 0 THEN found ELSE Len(st.archetypes)
        arch == st1.archetypes[archetype_index + 1]
        found_set == tuple_find_chunk_set(arch, tags)
        arch1 == IF found_set >= 0 THEN arch ELSE alloc_chunk_set(arch, tags)
        chunk_set_index == IF found_set >= 0 THEN found_set ELSE Len(arch.chunk_sets)
        r == insert_components([arch |-> arch1, al |-> clear_allocation_buffer(al),
                                un |-> un, items |-> items],
                               archetype_index, chunk_set_index)
    IN  [st |-> [st1 EXCEPT !.archetypes[archetype_index + 1] = r.arch],
         al |-> r.al,
         un |-> r.un]

-----------------------------------------------------------------------------
(* World::delete *)

\* a faulty delete: the entity is removed from its chunk but its handle is never
\* freed (C3 tells it from world_delete)
world_delete_leak(st, al, entity) ==
    LET d == delete_entity(al, entity) IN
    IF d.location = NoLocation
    THEN [st |-> st, al |-> al, ret |-> FALSE]
    ELSE LET r == swap_remove(chunk_at(st, d.location), d.location.component, TRUE)
         IN  [st |-> [st EXCEPT
                        !.archetypes[d.location.archetype + 1]
                            .chunk_sets[d.location.set + 1][d.location.chunk + 1] = r.chunk],
              al |-> IF r.swapped # None
                     THEN set_location(al, r.swapped.index, d.location)
                     ELSE al,
              ret |-> TRUE]

\* the storage and allocator after the call and the value returned
world_delete(st, al, entity) ==
    LET d == delete_entity(al, entity) IN
    IF d.location = NoLocation
    THEN [st |-> st, al |-> al, ret |-> FALSE]
    ELSE LET r == swap_remove(chunk_at(st, d.location), d.location.component, TRUE)
         IN  [st |-> [st EXCEPT
                        !.archetypes[d.location.archetype + 1]
                            .chunk_sets[d.location.set + 1][d.location.chunk + 1] = r.chunk],
              al |-> IF r.swapped # None
                     THEN set_location(d.al, r.swapped.index, d.location)
                     ELSE d.al,
              ret |-> TRUE]

-----------------------------------------------------------------------------
(* World::add_component, remove_component, add_tag, remove_tag *)

\* a faulty overwrite: the value is written to the first slot of the slice (C21
\* tells it from overwrite_component)
overwrite_component_first(st, location, t, component) ==
    [st EXCEPT !.archetypes[location.archetype + 1]
                   .chunk_sets[location.set + 1][location.chunk + 1]
                   .component_info[t] =
        [data_raw_mut(@) EXCEPT !.data[1] = component]]

\* add_component when the entity has the component: get_component_mut and the
\* assignment through the exclusive reference
overwrite_component(st, location, t, component) ==
    [st EXCEPT !.archetypes[location.archetype + 1]
                   .chunk_sets[location.set + 1][location.chunk + 1]
                   .component_info[t] =
        [data_raw_mut(@) EXCEPT !.data[location.component + 1] = component]]

\* a faulty add_component: the entity is moved and the new component is never
\* pushed (C11 tells it from world_add_component)
world_add_component_unpushed(st, al, world_id, entity, t, component) ==
    IF get_component(st, al, entity, t) # NoValue
    THEN {[st |-> overwrite_component(st, get_location(al, entity.index), t, component),
           al |-> al, target |-> get_location(al, entity.index), panic |-> "none"]}
    ELSE world_move_entity(st, al, world_id, entity, <<t>>, <<>>, <<>>, <<>>)

\* World::add_component: the outcomes.  `target` is where the entity is afterwards.
world_add_component(st, al, world_id, entity, t, component) ==
    IF get_component(st, al, entity, t) # NoValue
    THEN {[st |-> overwrite_component(st, get_location(al, entity.index), t, component),
           al |-> al, target |-> get_location(al, entity.index), panic |-> "none"]}
    ELSE
    { IF m.panic # "none" THEN m
      ELSE [m EXCEPT !.st.archetypes[m.target.archetype + 1]
                         .chunk_sets[m.target.set + 1][m.target.chunk + 1]
                         .component_info[t] = push_raw(@, component)]
      : m \in world_move_entity(st, al, world_id, entity, <<t>>, <<>>, <<>>, <<>>) }

\* a faulty remove_component that tests for a Pos component whatever the type
\* removed (C22 tells it from world_remove_component)
world_remove_component_untyped(st, al, world_id, entity, t) ==
    IF get_component(st, al, entity, "Pos") # NoValue
    THEN world_move_entity(st, al, world_id, entity, <<>>, <<t>>, <<>>, <<>>)
    ELSE {[st |-> st, al |-> al, target |-> NoLocation, panic |-> "none"]}

world_remove_component(st, al, world_id, entity, t) ==
    IF get_component(st, al, entity, t) # NoValue
    THEN world_move_entity(st, al, world_id, entity, <<>>, <<t>>, <<>>, <<>>)
    ELSE {[st |-> st, al |-> al, target |-> NoLocation, panic |-> "none"]}

world_remove_tag(st, al, world_id, entity, t) ==
    IF get_tag(st, al, entity, t) # NoValue
    THEN world_move_entity(st, al, world_id, entity, <<>>, <<>>, <<>>, <<t>>)
    ELSE {[st |-> st, al |-> al, target |-> NoLocation, panic |-> "none"]}

world_add_tag(st, al, world_id, entity, t, tag) ==
    UNION { IF r.panic # "none" THEN {r}
            ELSE world_move_entity(r.st, r.al, world_id, entity,
                                   <<>>, <<>>, [x \in {t} |-> tag], <<>>)
            : r \in world_remove_tag(st, al, world_id, entity, t) }

-----------------------------------------------------------------------------
(* Defragmentation *)

\* Chunkset::occupied_mut: the length of the prefix that ends at the last
\* non-empty chunk
occupied_len(chunks) ==
    IF \E i \in 1..Len(chunks) : ~is_empty(chunks[i])
    THEN CHOOSE i \in 1..Len(chunks) :
            ~is_empty(chunks[i]) /\ \A k \in (i + 1)..Len(chunks) : is_empty(chunks[k])
    ELSE 0

\* the two cursor loops of Chunkset::defrag
\* a faulty search for the target chunk: full chunks are not skipped (C29 tells
\* it from advance_first)
advance_first_stay(chunks, first, last) == first

advance_first(chunks, first, last) ==
    CHOOSE f \in first..last :
        /\ (f = last \/ ~is_full(chunks[f + 1]))
        /\ \A k \in first..(f - 1) : is_full(chunks[k + 1])

retreat_last(chunks, first, last) ==
    CHOOSE l \in first..last :
        /\ (l = first \/ ~is_empty(chunks[l + 1]))
        /\ \A k \in (l + 1)..last : is_empty(chunks[k + 1])

\* a faulty defrag loop: a move does not decrement the budget (C16 tells it from
\* defrag_loop)
RECURSIVE defrag_loop_unmetered(_)
defrag_loop_unmetered(r) ==
    IF ~r.inner
    THEN LET first == advance_first(r.chunks, r.first, r.last)
             last == retreat_last(r.chunks, first, r.last)
         IN  IF first = last
             THEN [r EXCEPT !.first = first, !.last = last, !.complete = TRUE]
             ELSE defrag_loop_unmetered([r EXCEPT !.first = first, !.last = last, !.inner = TRUE])
    ELSE IF r.budget = 0
    THEN [r EXCEPT !.complete = FALSE]
    ELSE LET source == r.chunks[r.last + 1]
             target == r.chunks[r.first + 1]
             \* the state after move_entity returned m and on_moved was called
             moved(m) ==
                 [r EXCEPT
                    !.chunks = [[@ EXCEPT ![r.last + 1] = m.source]
                                   EXCEPT ![r.first + 1] = m.target],
                    !.al = set_location(@, m.target.entities[Len(m.target.entities)].index,
                              EntityLocation_new(r.arch_index, r.set_index, r.first,
                                                 chunk_len(m.target) - 1)),
                    !.moves = @ + 1,
                    !.log = Append(@, [entity |-> source.entities[chunk_len(source)],
                                       source |-> r.last, target |-> r.first,
                                       index |-> chunk_len(source) - 1,
                                       source_len |-> chunk_len(source),
                                       target_len |-> chunk_len(target),
                                       capacity |-> target.capacity,
                                       swapped |-> m.swapped,
                                       on_moved |-> <<m.target.entities[Len(m.target.entities)],
                                                      r.first, chunk_len(m.target) - 1>>]),
                    !.inner = ~(is_full(m.target) \/ is_empty(m.source))]
         IN  defrag_loop_unmetered(moved(chunk_move_entity(source, target, chunk_len(source) - 1)))

\* the loops of Chunkset::defrag: r.inner tells whether control is at the top of
\* the inner loop (moving entities from chunk `last` to chunk `first`) or at the
\* top of the outer loop; r = [chunks, first, last, budget, al, arch_index,
\* set_index, complete, moves, inner]
RECURSIVE defrag_loop(_)
defrag_loop(r) ==
    IF ~r.inner
    THEN LET first == advance_first(r.chunks, r.first, r.last)
             last == retreat_last(r.chunks, first, r.last)
         IN  IF first = last
             THEN [r EXCEPT !.first = first, !.last = last, !.complete = TRUE]
             ELSE defrag_loop([r EXCEPT !.first = first, !.last = last, !.inner = TRUE])
    ELSE IF r.budget = 0
    THEN [r EXCEPT !.complete = FALSE]
    ELSE LET source == r.chunks[r.last + 1]
             target == r.chunks[r.first + 1]
             \* the state after move_entity returned m and on_moved was called
             moved(m) ==
                 [r EXCEPT
                    !.budget = @ - 1,
                    !.chunks = [[@ EXCEPT ![r.last + 1] = m.source]
                                   EXCEPT ![r.first + 1] = m.target],
                    !.al = set_location(@, m.target.entities[Len(m.target.entities)].index,
                              EntityLocation_new(r.arch_index, r.set_index, r.first,
                                                 chunk_len(m.target) - 1)),
                    !.moves = @ + 1,
                    !.log = Append(@, [entity |-> source.entities[chunk_len(source)],
                                       source |-> r.last, target |-> r.first,
                                       index |-> chunk_len(source) - 1,
                                       source_len |-> chunk_len(source),
                                       target_len |-> chunk_len(target),
                                       capacity |-> target.capacity,
                                       swapped |-> m.swapped,
                                       on_moved |-> <<m.target.entities[Len(m.target.entities)],
                                                      r.first, chunk_len(m.target) - 1>>]),
                    !.inner = ~(is_full(m.target) \/ is_empty(m.source))]
         IN  defrag_loop(moved(chunk_move_entity(source, target, chunk_len(source) - 1)))

\* a faulty Chunkset::defrag that reports complete when the budget ran out (C28
\* tells it from chunkset_defrag)
chunkset_defrag_complete(chunks, budget, al, arch_index, set_index) ==
    LET len == occupied_len(chunks)
        result(r) == [chunks |-> r.chunks, budget |-> r.budget, al |-> r.al,
                      complete |-> TRUE, moves |-> r.moves, log |-> r.log,
                      panic |-> "none"]
    IN  IF len = 0
        THEN [chunks |-> chunks, budget |-> budget, al |-> al, complete |-> FALSE,
              moves |-> 0, log |-> <<>>, panic |-> "attempt to subtract with overflow"]
        ELSE result(defrag_loop([chunks |-> chunks, first |-> 0, last |-> len - 1,
                                 budget |-> budget, al |-> al, arch_index |-> arch_index,
                                 set_index |-> set_index, complete |-> FALSE, moves |-> 0,
                                 log |-> <<>>, inner |-> FALSE]))

\* Chunkset::defrag; `slice.len() - 1` on an empty occupied prefix panics.  `log`
\* lists the calls of move_entity with what they returned and the calls of
\* on_moved that followed
chunkset_defrag(chunks, budget, al, arch_index, set_index) ==
    LET len == occupied_len(chunks)
        result(r) == [chunks |-> r.chunks, budget |-> r.budget, al |-> r.al,
                      complete |-> r.complete, moves |-> r.moves, log |-> r.log,
                      panic |-> "none"]
    IN  IF len = 0
        THEN [chunks |-> chunks, budget |-> budget, al |-> al, complete |-> FALSE,
              moves |-> 0, log |-> <<>>, panic |-> "attempt to subtract with overflow"]
        ELSE result(defrag_loop([chunks |-> chunks, first |-> 0, last |-> len - 1,
                                 budget |-> budget, al |-> al, arch_index |-> arch_index,
                                 set_index |-> set_index, complete |-> FALSE, moves |-> 0,
                                 log |-> <<>>, inner |-> FALSE]))

\* ArchetypeData::defrag over the chunk-sets from index i on;
\* r = [arch, budget, al, complete, moves, panic]
RECURSIVE archetype_defrag_from(_, _)
archetype_defrag_from(r, i) ==
    LET \* after Chunkset::defrag returned d for chunk-set i
        after(d) ==
            LET next == [arch |-> [r.arch EXCEPT !.chunk_sets[i + 1] = d.chunks],
                         budget |-> d.budget, al |-> d.al, complete |-> FALSE,
                         moves |-> r.moves + d.moves, panic |-> d.panic]
            IN  IF d.panic # "none" \/ ~d.complete
                THEN next
                ELSE archetype_defrag_from(next, i + 1)
    IN  IF i >= Len(r.arch.chunk_sets)
        THEN [r EXCEPT !.complete = TRUE]
        ELSE after(chunkset_defrag(r.arch.chunk_sets[i + 1], r.budget, r.al,
                                   r.arch.id[2], i))

\* a faulty ArchetypeData::defrag: the moved entities are reported in the next
\* archetype (C14 tells it from archetype_defrag)
archetype_defrag_shifted(arch, budget, al) ==
    archetype_defrag_from([arch |-> [arch EXCEPT !.id = <<@[1], @[2] + 1>>],
                           budget |-> budget, al |-> al,
                           complete |-> FALSE, moves |-> 0, panic |-> "none"], 0)

archetype_defrag(arch, budget, al) ==
    archetype_defrag_from([arch |-> arch, budget |-> budget, al |-> al,
                           complete |-> FALSE, moves |-> 0, panic |-> "none"], 0)

\* the while loop of World::defrag;
\* r = [st, al, progress, start, budget, moves, visits, panic]
RECURSIVE world_defrag_loop(_)
world_defrag_loop(r) ==
    LET \* after ArchetypeData::defrag returned d for archetype r.progress
        after(d) ==
            LET progress == IF d.complete
                            THEN (r.progress + 1) % Len(r.st.archetypes)
                            ELSE r.progress
                next == [st |-> [r.st EXCEPT !.archetypes[r.progress + 1] = d.arch],
                         al |-> d.al, progress |-> progress, start |-> r.start,
                         budget |-> d.budget, moves |-> r.moves + d.moves,
                         visits |-> r.visits + 1, panic |-> d.panic]
            IN  IF d.panic # "none" \/ d.budget = 0 \/ progress = r.start
                THEN next
                ELSE world_defrag_loop(next)
    IN  IF ~(r.progress < Len(r.st.archetypes))
        THEN r
        ELSE after(archetype_defrag(r.st.archetypes[r.progress + 1], r.budget, r.al))

\* a faulty World::defrag that starts at archetype 0 on every call (C30 tells it
\* from world_defrag)
world_defrag_restart(st, al, progress, budget) ==
    world_defrag_loop([st |-> st, al |-> al, progress |-> 0, start |-> 0,
                       budget |-> IF budget < 0 THEN 1000000 ELSE budget,
                       moves |-> 0, visits |-> 0, panic |-> "none"])

\* budget = -1 stands for None (usize::MAX)
world_defrag(st, al, progress, budget) ==
    world_defrag_loop([st |-> st, al |-> al, progress |-> progress, start |-> progress,
                       budget |-> IF budget < 0 THEN 1000000 ELSE budget,
                       moves |-> 0, visits |-> 0, panic |-> "none"])

-----------------------------------------------------------------------------
(* Merge *)

\* the comparison of the tag values of self's chunk-set `index` with those of
\* other's chunk-set i may succeed / may fail
merge_may_match(self, other, index, i) ==
    \A t \in DOMAIN self.tags :
        \E a \in tag_read(self.tags[t], index, t) :
            a \in tag_read(other.tags[t], i, t)

merge_may_fail(self, other, index, i) ==
    \E t \in DOMAIN self.tags :
        \E a \in tag_read(self.tags[t], index, t) :
            \E b \in tag_read(other.tags[t], i, t) : a # b

\* the values of set_match after the inner loop of ArchetypeData::merge for
\* other's chunk-set i: Some(i) when some chunk-set of self matched, else None (-1)
set_match(self, other, i) ==
    LET n == Len(self.chunk_sets) IN
    (IF \E index \in 0..(n - 1) :
            /\ merge_may_match(self, other, index, i)
            /\ \A k \in 0..(index - 1) : merge_may_fail(self, other, k, i)
     THEN {i} ELSE {})
    \cup (IF \A k \in 0..(n - 1) : merge_may_fail(self, other, k, i) THEN {-1} ELSE {})

\* ArchetypeData::merge from other's chunk-set i on: the outcomes
RECURSIVE archetype_merge_from(_, _, _)
archetype_merge_from(self, other, i) ==
    IF i >= Len(other.chunk_sets)
    THEN {[arch |-> self, panic |-> "none"]}
    ELSE UNION {
           IF chunk_set < 0
           THEN archetype_merge_from(
                    [self EXCEPT !.chunk_sets = Append(@, other.chunk_sets[i + 1])],
                    other, i + 1)
           ELSE IF chunk_set >= Len(self.chunk_sets)
           THEN {[arch |-> self, panic |-> "index out of bounds"]}
           ELSE archetype_merge_from(
                    [self EXCEPT !.chunk_sets[chunk_set + 1] = @ \o other.chunk_sets[i + 1]],
                    other, i + 1)
           : chunk_set \in set_match(self, other, i) }

archetype_merge(self, other) == archetype_merge_from(self, other, 0)

\* the loop of World::merge over the drained archetypes, from archetype k on
RECURSIVE world_merge_from(_, _, _)
world_merge_from(st, other, k) ==
    IF k >= Len(other.archetypes)
    THEN {[st |-> st, panic |-> "none"]}
    ELSE LET archetype == other.archetypes[k + 1]
             arch_index == first_index({i \in 0..(Len(st.archetypes) - 1) :
                              description_is_match(archetype.desc,
                                  st.tag_types[i + 1], st.component_types[i + 1])})
         IN  IF arch_index >= 0
             THEN UNION { IF m.panic # "none"
                          THEN {[st |-> st, panic |-> m.panic]}
                          ELSE world_merge_from(
                                   [st EXCEPT !.archetypes[arch_index + 1] = m.arch],
                                   other, k + 1)
                          : m \in archetype_merge(st.archetypes[arch_index + 1], archetype) }
             ELSE world_merge_from(Storage_push(st, archetype), other, k + 1)

\* World::merge: the outcomes
world_merge(st, al, other_st, other_al) ==
    {[st |-> m.st, al |-> allocator_merge(al, other_al), panic |-> m.panic]
        : m \in world_merge_from(st, other_st, 0)}

-----------------------------------------------------------------------------
(* What a caller observes of an entity *)

components_of(st, al, entity) ==
    [t \in ComponentTypeIds |-> get_component(st, al, entity, t)]

tags_of(st, al, entity) ==
    [t \in TagTypeIds |-> get_tag(st, al, entity, t)]

-----------------------------------------------------------------------------
(* The programs: inputs of the public calls *)

\* tag tuples: a value for each tag type of a subset
TagSets ==
    UNION {{f \in [S -> {0, 1, 2}] : \A t \in S : f[t] \in TagValues(t)} :
           S \in {S \in SUBSET TagTypeIds : "Model" \in S}}

\* component tuples types inserted
Layouts == {<<"Pos">>, <<"Pos", "Scale">>}

\* create_entity calls an allocator has served: an index's version counts them,
\* and one more once the index is freed
created_by(al) ==
    LET RECURSIVE sum(_)
        sum(n) == IF n = 0 THEN 0 ELSE sum(n - 1) + al.versions[n - 1]
    IN  sum(MaxEntities) - Len(al.free)

\* create_entity calls made so far by the allocators of all worlds
Created == created_by(entity_allocator[1]) + created_by(entity_allocator[2])

\* the batches inserted while `entities` entities may be created in all: the
\* i-th entity of a batch gets the i-th value
Batches(layout, entities) ==
    {[i \in 1..n |-> [t \in Range(layout) |-> component_value(t, i)]] :
        n \in 1..(IF entities - Created < MaxBatch THEN entities - Created ELSE MaxBatch)}

\* the values add_component is called with, and the types remove_component is called with
AddedValues == {2}
AddedTypes == {"Scale"}
RemovedTypes == {"Scale"}
\* the tags add_tag is called with, and the types remove_tag is called with
AddedTags == {<<"Static", 0>>, <<"Model", 1>>, <<"Model", 2>>}
RemovedTags == {"Static"}

\* entity handles a caller may hold for a world: every version an index had
Handles(w) ==
    {[index |-> i, version |-> v] :
        i \in EntityIndices, v \in 1..MaxEntities} \cap
    {h \in [index : EntityIndices, version : 1..MaxEntities] :
        h.version <= entity_allocator[w].versions[h.index]}

RECURSIVE SumLen(_)
SumLen(seqs) == IF seqs = <<>> THEN 0 ELSE Len(Head(seqs)) + SumLen(Tail(seqs))

\* the chunk-sets of a storage, in order
all_chunk_sets(st) ==
    LET RECURSIVE cat(_)
        cat(k) == IF k = 0 THEN <<>> ELSE cat(k - 1) \o st.archetypes[k].chunk_sets
    IN  cat(Len(st.archetypes))

\* no type twice in a description
distinct_types(types) == \A i, j \in 1..Len(types) : i # j => types[i] # types[j]

\* the bounds on a storage.  The model keeps one tag storage and one component
\* slice per type of an archetype, so it stops before an archetype whose
\* description names a type twice (a call with a handle that is not live, whose
\* index a newer entity that has the added type took, creates one).
bounded_storage(st, sets, chunks) ==
    /\ Len(st.archetypes) <= MaxArchetypes
    /\ \A a \in 1..Len(st.archetypes) :
          /\ distinct_types(st.archetypes[a].desc.tags)
          /\ distinct_types(st.archetypes[a].desc.components)
    /\ LET chunk_sets == all_chunk_sets(st)
       IN  Len(chunk_sets) <= sets /\ SumLen(chunk_sets) <= chunks

\* no accessor version above `versions`
bounded_versions(st, versions) ==
    \A a \in 1..Len(st.archetypes) :
       \A s \in 1..Len(st.archetypes[a].chunk_sets) :
          \A c \in 1..Len(st.archetypes[a].chunk_sets[s]) :
             \A t \in DOMAIN st.archetypes[a].chunk_sets[s][c].component_info :
                st.archetypes[a].chunk_sets[s][c].component_info[t].version <= versions

-----------------------------------------------------------------------------
(* The state machine *)

InitWorlds ==
    /\ worlds = {1, 2}
    /\ storage = [w \in {1, 2} |-> Storage_new]
    /\ entity_allocator = [w \in {1, 2} |-> EntityAllocator_new]
    /\ defrag_progress = [w \in {1, 2} |-> 0]
    /\ universe = 0
    /\ borrow_state = [w \in {1, 2} |-> {}]

\* the description of an archetype that is about to be created
Described(metas) == [desc |-> metas, archetype |-> <<>>, chunks |-> <<>>]

Init ==
    /\ InitWorlds
    /\ component_layout = Described(<<>>)
    /\ tag_storage = TagStorage_new(TagMeta_of("Static"))

\* the bounds of the specifications: b = [entities, sets, chunks]
Small == [entities |-> SmallEntities, sets |-> SmallSets, chunks |-> SmallChunks, versions |-> MaxVersion]
Wide == [entities |-> WideEntities, sets |-> MaxSets, chunks |-> MaxChunks, versions |-> MaxVersion]
Deep == [entities |-> DefragEntities, sets |-> SmallSets, chunks |-> SmallChunks, versions |-> DefragVersion]

\* shared references a caller keeps to one accessor
MaxBorrows == 2
\* components of a description whose layout is planned, chunks allocated for it
MaxComponents == 3
MaxLayoutChunks == 2
\* values pushed onto one tag storage: two doublings of its capacity
MaxPushes == 9

\* the bound of the worlds whose components are read: accessor versions to ReadVersion
ReadVersion == 3
Read == [entities |-> SmallEntities, sets |-> SmallSets, chunks |-> SmallChunks,
         versions |-> ReadVersion]

\* the step of a call that returns, leaving world w with storage st and allocator
\* al; a specification takes the steps that stay within its bounds b
Return(w, st, al, b) ==
    /\ bounded_storage(st, b.sets, b.chunks)
    /\ bounded_versions(st, b.versions)
    /\ storage' = [storage EXCEPT ![w] = st]
    /\ entity_allocator' = [entity_allocator EXCEPT ![w] = al]
    /\ UNCHANGED <<worlds, borrow_state, component_layout, tag_storage>>

\* one outcome m of a structural call
Outcome(w, m, b) ==
    /\ m.panic = "none"
    /\ borrow_state[w] = {}
    /\ Return(w, m.st, m.al, b)
    /\ UNCHANGED <<universe, defrag_progress>>

Insert(w, tags, layout, items, b) ==
    /\ w \in worlds
    /\ borrow_state[w] = {}
    /\ \E r \in {world_insert(storage[w], entity_allocator[w], universe, w,
                              tags, layout, items)} :
          /\ Return(w, r.st, r.al, b)
          /\ universe' = r.un
          /\ UNCHANGED defrag_progress

Delete(w, entity, b) ==
    /\ w \in worlds
    /\ borrow_state[w] = {}
    /\ \E r \in {world_delete(storage[w], entity_allocator[w], entity)} :
          Return(w, r.st, r.al, b)
    /\ UNCHANGED <<universe, defrag_progress>>

AddComponent(w, entity, t, component, b) ==
    /\ w \in worlds
    /\ \E m \in world_add_component(storage[w], entity_allocator[w], w, entity, t, component) :
          Outcome(w, m, b)

RemoveComponent(w, entity, t, b) ==
    /\ w \in worlds
    /\ \E m \in world_remove_component(storage[w], entity_allocator[w], w, entity, t) :
          Outcome(w, m, b)

AddTag(w, entity, t, tag, b) ==
    /\ w \in worlds
    /\ \E m \in world_add_tag(storage[w], entity_allocator[w], w, entity, t, tag) :
          Outcome(w, m, b)

RemoveTag(w, entity, t, b) ==
    /\ w \in worlds
    /\ \E m \in world_remove_tag(storage[w], entity_allocator[w], w, entity, t) :
          Outcome(w, m, b)

Defrag(w, budget, b) ==
    /\ w \in worlds
    /\ borrow_state[w] = {}
    /\ \E r \in {world_defrag(storage[w], entity_allocator[w], defrag_progress[w], budget)} :
          /\ r.panic = "none"
          /\ Return(w, r.st, r.al, b)
          /\ defrag_progress' = [defrag_progress EXCEPT ![w] = r.progress]
    /\ UNCHANGED universe

\* World::merge consumes the other world
Merge(w, other, b) ==
    /\ w \in worlds /\ other \in worlds /\ w # other
    /\ borrow_state[w] = {} /\ borrow_state[other] = {}
    /\ \E m \in world_merge(storage[w], entity_allocator[w],
                            storage[other], entity_allocator[other]) :
          /\ m.panic = "none"
          /\ bounded_storage(m.st, b.sets, b.chunks)
          /\ bounded_versions(m.st, b.versions)
          /\ storage' = [storage EXCEPT ![w] = m.st, ![other] = Storage_new]
          /\ entity_allocator' = [entity_allocator EXCEPT ![w] = m.al,
                                                          ![other] = EntityAllocator_new]
    /\ worlds' = worlds \ {other}
    /\ UNCHANGED <<universe, defrag_progress, borrow_state, component_layout, tag_storage>>

\* World::get_component_mut: the call, and the reference dropped unwritten
GetComponentMut(w, entity, t, b) ==
    /\ w \in worlds
    /\ \E r \in {get_component_mut(storage[w], entity_allocator[w], entity, t)} :
          Return(w, r.st, entity_allocator[w], b)
    /\ UNCHANGED <<universe, defrag_progress>>

\* World::get_component_changed and World::get_component_changed_mut
GetComponentChanged(w, entity, t, mark_unchanged, mutable, b) ==
    /\ w \in worlds
    /\ \E r \in {get_component_changed(storage[w], entity_allocator[w], entity, t,
                                        mark_unchanged, mutable)} :
          Return(w, r.st, entity_allocator[w], b)
    /\ UNCHANGED <<universe, defrag_progress>>

\* World::get_component, the caller keeping the Ref
BorrowComponent(w, entity, t, b) ==
    /\ w \in worlds
    /\ \E r \in {world_get_component(storage[w], entity_allocator[w], borrow_state[w],
                                      entity, t)} :
          /\ r.panic = "none"
          /\ \A c \in r.cells : c.count <= MaxBorrows
          /\ borrow_state' = [borrow_state EXCEPT ![w] = r.cells]
    /\ UNCHANGED <<worlds, storage, entity_allocator, universe, defrag_progress,
                   component_layout, tag_storage>>

\* World::get_component_mut, the caller keeping the RefMut
BorrowComponentMut(w, entity, t, b) ==
    /\ w \in worlds
    /\ \E r \in {world_get_component_mut(storage[w], entity_allocator[w], borrow_state[w],
                                          entity, t)} :
          /\ r.panic = "none"
          /\ bounded_versions(r.st, b.versions)
          /\ storage' = [storage EXCEPT ![w] = r.st]
          /\ borrow_state' = [borrow_state EXCEPT ![w] = r.cells]
    /\ UNCHANGED <<worlds, entity_allocator, universe, defrag_progress,
                   component_layout, tag_storage>>

\* a caller drops a reference it keeps
DropRef(w, cell) ==
    /\ w \in worlds
    /\ borrow_count(borrow_state[w], cell) # 0
    /\ borrow_state' = [borrow_state EXCEPT ![w] = release(@, cell)]
    /\ UNCHANGED <<worlds, storage, entity_allocator, universe, defrag_progress,
                   component_layout, tag_storage>>

\* ArchetypeData::new: the layout of the description is planned
NewArchetype ==
    /\ Len(component_layout.archetype) = 0
    /\ component_layout' = [component_layout EXCEPT
                               !.archetype = <<ComponentStorageLayout_new(component_layout.desc)>>]
    /\ UNCHANGED <<worlds, storage, entity_allocator, universe, defrag_progress,
                   borrow_state, tag_storage>>

\* ComponentStorageLayout::alloc_storage: the archetype gets one more chunk
AllocStorage ==
    /\ Len(component_layout.archetype) = 1
    /\ Len(component_layout.chunks) < MaxLayoutChunks
    /\ component_layout' = [component_layout EXCEPT
                               !.chunks = Append(@, ComponentStorageLayout_alloc_storage(
                                                       component_layout.archetype[1]))]
    /\ UNCHANGED <<worlds, storage, entity_allocator, universe, defrag_progress,
                   borrow_state, tag_storage>>

\* TagStorage::push of one value of the storage's type
TagPush(value) ==
    /\ tag_storage.len < MaxPushes
    /\ \E r \in {TagStorage_push_raw(tag_storage, value)} :
          /\ r.panic = "none"
          /\ tag_storage' = r.tags
    /\ UNCHANGED <<worlds, storage, entity_allocator, universe, defrag_progress,
                   borrow_state, component_layout>>

Budgets == {-1} \cup 0..MaxBudget

\* one world, every call but merge
Next ==
    \/ \E tags \in TagSets, layout \in Layouts :
          \E items \in Batches(layout, Small.entities) : Insert(1, tags, layout, items, Small)
    \/ \E entity \in Handles(1) : Delete(1, entity, Small)
    \/ \E entity \in Handles(1), t \in AddedTypes, n \in AddedValues :
          AddComponent(1, entity, t, component_value(t, n), Small)
    \/ \E entity \in Handles(1), t \in RemovedTypes : RemoveComponent(1, entity, t, Small)
    \/ \E entity \in Handles(1), tag \in AddedTags : AddTag(1, entity, tag[1], tag[2], Small)
    \/ \E entity \in Handles(1), t \in RemovedTags : RemoveTag(1, entity, t, Small)
    \/ \E budget \in Budgets : Defrag(1, budget, Small)

Spec == Init /\ [][Next]_vars

\* two worlds that are filled, then merged
NextMerge ==
    \/ \E w \in {1, 2}, tags \in TagSets, layout \in Layouts :
          \E items \in Batches(layout, Small.entities) : Insert(w, tags, layout, items, Small)
    \/ \E w \in {1, 2} : \E entity \in Handles(w) : Delete(w, entity, Small)
    \/ Merge(1, 2, Small)

SpecMerge == Init /\ [][NextMerge]_vars

\* one world, insert and delete only
NextInsertDelete ==
    \/ \E tags \in TagSets, layout \in Layouts :
          \E items \in Batches(layout, Small.entities) : Insert(1, tags, layout, items, Small)
    \/ \E entity \in Handles(1) : Delete(1, entity, Small)

SpecInsertDelete == Init /\ [][NextInsertDelete]_vars

\* one world, more entities and chunk-sets: inserts with a Model tag, and the
\* moves that add_component and remove_component make
NextMoves ==
    \/ \E tags \in {f \in TagSets : DOMAIN f = {"Model"}}, layout \in Layouts :
          \E items \in Batches(layout, Wide.entities) : Insert(1, tags, layout, items, Wide)
    \/ \E entity \in Handles(1), t \in AddedTypes, n \in AddedValues :
          AddComponent(1, entity, t, component_value(t, n), Wide)
    \/ \E entity \in Handles(1), t \in RemovedTypes : RemoveComponent(1, entity, t, Wide)

SpecMoves == Init /\ [][NextMoves]_vars

\* one world in which entities are inserted, deleted and defragmented
NextDefrag ==
    \/ \E tags \in {f \in TagSets : DOMAIN f = {"Model"}}, layout \in Layouts :
          \E items \in Batches(layout, Deep.entities) : Insert(1, tags, layout, items, Deep)
    \/ \E entity \in Handles(1) : Delete(1, entity, Deep)
    \/ \E budget \in Budgets : Defrag(1, budget, Deep)

SpecDefrag == Init /\ [][NextDefrag]_vars

\* one world whose components are read through the mutable and the changed readers
NextRead ==
    \/ \E tags \in {f \in TagSets : DOMAIN f = {"Model"}}, layout \in Layouts :
          \E items \in Batches(layout, Read.entities) : Insert(1, tags, layout, items, Read)
    \/ \E entity \in Handles(1) : Delete(1, entity, Read)
    \/ \E entity \in Handles(1), t \in ComponentTypeIds : GetComponentMut(1, entity, t, Read)
    \/ \E entity \in Handles(1), t \in ComponentTypeIds, mark_unchanged, mutable \in BOOLEAN :
          GetComponentChanged(1, entity, t, mark_unchanged, mutable, Read)

SpecRead == Init /\ [][NextRead]_vars

\* one world whose callers keep the references they get
NextBorrow ==
    \/ \E tags \in {f \in TagSets : DOMAIN f = {"Model"}}, layout \in Layouts :
          \E items \in Batches(layout, Read.entities) : Insert(1, tags, layout, items, Read)
    \/ \E entity \in Handles(1), t \in ComponentTypeIds : BorrowComponent(1, entity, t, Read)
    \/ \E entity \in Handles(1), t \in ComponentTypeIds : BorrowComponentMut(1, entity, t, Read)
    \/ \E c \in borrow_state[1] : DropRef(1, c.cell)

SpecBorrow == Init /\ [][NextBorrow]_vars

\* the archetype descriptions whose layout is planned: up to MaxComponents
\* components, the size of each a multiple of its alignment as size_of and
\* align_of give them
LayoutSizes == {0, 1, 3, 12, 24, 128, 20480}
LayoutAligns == {1, 4, 8, 128}
LayoutMetas ==
    {m \in [size : LayoutSizes, align : LayoutAligns] : m.size % m.align = 0}
RECURSIVE Descriptions(_)
Descriptions(n) ==
    IF n = 0 THEN {<<>>}
    ELSE Descriptions(n - 1) \cup
         {Append(d, m) : d \in {x \in Descriptions(n - 1) : Len(x) = n - 1}, m \in LayoutMetas}

InitLayout ==
    /\ InitWorlds
    /\ component_layout \in {Described(d) : d \in Descriptions(MaxComponents)}
    /\ tag_storage = TagStorage_new(TagMeta_of("Static"))

NextLayout ==
    \/ NewArchetype
    \/ AllocStorage

SpecLayout == InitLayout /\ [][NextLayout]_vars

\* one tag storage of either kind that values are pushed onto
InitTags ==
    /\ InitWorlds
    /\ component_layout = Described(<<>>)
    /\ tag_storage \in {TagStorage_new(TagMeta_of(t)) : t \in TagTypeIds}

NextTags ==
    \E t \in TagTypeIds :
       /\ TagMeta_of(t) = tag_storage.element
       /\ \E value \in TagValues(t) : TagPush(value)

SpecTags == InitTags /\ [][NextTags]_vars

-----------------------------------------------------------------------------
(* Properties *)

\* the live entities of an allocator
Live(al) ==
    {[index |-> i, version |-> al.versions[i]] :
        i \in {k \in EntityIndices : al.versions[k] > 0 /\ ~Contains(al.free, k)}}

\* what a caller reads of an entity: every component and every tag
view(st, al, entity) ==
    [components |-> components_of(st, al, entity), tags |-> tags_of(st, al, entity)]

\* the outcomes of a call that return
returned(outcomes) == {m \in outcomes : m.panic = "none"}

\* I1 for one world
located(st, al) ==
    \A e \in Live(al) :
        LET location == get_location(al, e.index) IN
        /\ location # NoLocation
        /\ has_chunk(st, location)
        /\ location.component < Len(chunk_at(st, location).entities)
        /\ chunk_at(st, location).entities[location.component + 1] = e

\* C1: after any sequence of insert, delete, add_component, remove_component,
\* add_tag, remove_tag and defrag, the location the allocator holds for every
\* live entity names an existing chunk whose entities vector holds exactly that
\* entity at that slot.
C1_LocationInvariant == located(storage[1], entity_allocator[1])

\* C1 witness: the second entity of a batch inserted into a capacity-1 archetype
\* (so into chunk 1) lies in chunk 0 of the only chunk-set of the only archetype:
\* no structural move happened, defrag relocated it, and I1 holds for it.
C1_Witness ==
    LET st == storage[1]
        al == entity_allocator[1]
        e == [index |-> 1, version |-> 1]
    IN  /\ is_alive(al, e)
        /\ Len(st.archetypes) = 1
        /\ Len(st.archetypes[1].chunk_sets) = 1
        /\ st.archetypes[1].capacity = 1
        /\ get_component(st, al, e, "Pos") = component_value("Pos", 2)
        /\ get_location(al, e.index) = EntityLocation_new(0, 0, 0, 0)
        /\ defrag_progress[1] > 0 \/ Len(st.archetypes[1].chunk_sets[1]) = 2

\* what insert gave an entity: the item's components and the tuple's tags
inserted_view(tags, layout, item) ==
    [components |-> [t \in ComponentTypeIds |->
                        IF t \in Range(layout) THEN item[t] ELSE NoValue],
     tags |-> [t \in TagTypeIds |-> IF t \in DOMAIN tags THEN tags[t] ELSE NoValue]]

\* C2: over insert and delete calls on one world, an inserted entity reads the
\* component values and the tag values it was inserted with until it is deleted:
\* an insert gives each new entity exactly its item and the tuple's tags and
\* changes what no live entity reads, and a delete changes what no other live
\* entity reads, the swap victim included.
C2_InsertDeletePreserve ==
    LET st == storage[1]
        al == entity_allocator[1]
    IN  /\ \A tags \in TagSets, layout \in Layouts :
              \A items \in Batches(layout, SmallEntities) :
                 LET r == world_insert(st, al, universe, 1, tags, layout, items) IN
                 /\ Len(r.al.buffer) = Len(items)
                 /\ \A k \in 1..Len(items) :
                       /\ r.al.buffer[k] \notin Live(al)
                       /\ is_alive(r.al, r.al.buffer[k])
                       /\ view(r.st, r.al, r.al.buffer[k])
                             = inserted_view(tags, layout, items[k])
                 /\ \A e \in Live(al) : view(r.st, r.al, e) = view(st, al, e)
        /\ \A d \in Live(al) :
              LET r == world_delete(st, al, d) IN
              \A e \in Live(al) \ {d} :
                 /\ is_alive(r.al, e)
                 /\ view(r.st, r.al, e) = view(st, al, e)

\* C2 witness: after the delete of the first entity of a chunk, the second entity
\* of the batch was swapped into slot 0 and reads the value it was inserted with.
C2_Witness ==
    LET st == storage[1]
        al == entity_allocator[1]
        e == [index |-> 1, version |-> 1]
    IN  /\ is_alive(al, e)
        /\ ~is_alive(al, [index |-> 0, version |-> 1])
        /\ get_location(al, e.index).component = 0
        /\ st.archetypes[get_location(al, e.index).archetype + 1].capacity = 2
        /\ get_component(st, al, e, "Pos") = component_value("Pos", 2)
        /\ get_tag(st, al, e, "Model") = 2

\* C3: delete(e) of an entity that is not live returns false and changes neither
\* the storage nor the location table; delete(e) of a live entity returns true,
\* after it e is not live, get_component::<T>(e) is None for every T, and a
\* second delete(e) returns false.
C3_DeleteContract ==
    LET st == storage[1]
        al == entity_allocator[1]
    IN  \A e \in Handles(1) :
           LET r == world_delete(st, al, e) IN
           IF ~is_alive(al, e)
           THEN /\ r.ret = FALSE
                /\ r.st = st
                /\ r.al = al
           ELSE /\ r.ret = TRUE
                /\ ~is_alive(r.al, e)
                /\ \A t \in ComponentTypeIds : get_component(r.st, r.al, e, t) = NoValue
                /\ world_delete(r.st, r.al, e).ret = FALSE
                /\ world_delete(r.st, r.al, e).st = r.st

\* C3 witness: an entity was deleted while another one is live: its handle is
\* dead, the next delete of it is the one that returns false.
C3_Witness ==
    LET al == entity_allocator[1] IN
    /\ \E e \in Handles(1) : ~is_alive(al, e) /\ world_delete(storage[1], al, e).ret = FALSE
    /\ \E e \in Handles(1) : is_alive(al, e) /\ world_delete(storage[1], al, e).ret = TRUE

\* C4: for a live entity e and a component type T that e lacks,
\* add_component(e, v) followed by remove_component::<T>(e) leaves every other
\* component value and every tag value of e as it was.
C4_RoundTrip ==
    LET st == storage[1]
        al == entity_allocator[1]
    IN  \A e \in Live(al), t \in ComponentTypeIds, n \in ComponentValues :
           get_component(st, al, e, t) = NoValue =>
           \A m1 \in returned(world_add_component(st, al, 1, e, t, component_value(t, n))) :
              \A m2 \in returned(world_remove_component(m1.st, m1.al, 1, e, t)) :
                 view(m2.st, m2.al, e) = view(st, al, e)

\* the archetype an entity lies in
archetype_of(st, al, entity) == st.archetypes[get_location(al, entity.index).archetype + 1]

C7_AddTag ==
    LET st == storage[1]
        al == entity_allocator[1]
    IN  \A e \in Live(al), t \in TagTypeIds :
           \A v \in TagValues(t) :
              get_tag(st, al, e, t) = NoValue =>
              \A m \in returned(world_add_tag(st, al, 1, e, t, v)) :
                 LET source == get_location(al, e.index) IN
                 /\ get_tag(m.st, m.al, e, t) = v
                 /\ \A u \in TagTypeIds \ {t} :
                       get_tag(m.st, m.al, e, u) = get_tag(st, al, e, u)
                 /\ components_of(m.st, m.al, e) = components_of(st, al, e)
                 /\ source.archetype < Len(m.st.archetypes)
                 /\ source.set < Len(m.st.archetypes[source.archetype + 1].chunk_sets)
                 /\ \A c \in 1..Len(m.st.archetypes[source.archetype + 1]
                                        .chunk_sets[source.set + 1]) :
                       ~Contains(m.st.archetypes[source.archetype + 1]
                                    .chunk_sets[source.set + 1][c].entities, e)

\* C8: for a live entity e with tag T, after remove_tag::<T>(e): get_tag::<T>(e)
\* is None, and every other tag and every component of e reads its previous
\* value.
C8_RemoveTag ==
    LET st == storage[1]
        al == entity_allocator[1]
    IN  \A e \in Live(al), t \in TagTypeIds :
           get_tag(st, al, e, t) # NoValue =>
           \A m \in returned(world_remove_tag(st, al, 1, e, t)) :
              /\ get_tag(m.st, m.al, e, t) = NoValue
              /\ \A u \in TagTypeIds \ {t} :
                    get_tag(m.st, m.al, e, u) = get_tag(st, al, e, u)
              /\ components_of(m.st, m.al, e) = components_of(st, al, e)

\* the tag values of chunk-set i of an archetype (zero-based)
chunk_set_tags(arch, i) == [t \in DOMAIN arch.tags |-> tag_read(arch.tags[t], i, t)]

\* C9: in every reachable state no archetype has two distinct chunk-sets whose
\* tag values are equal for every tag type.
C9_DistinctChunkSets ==
    \A a \in 1..Len(storage[1].archetypes) :
       LET arch == storage[1].archetypes[a] IN
       \A i \in 0..(Len(arch.chunk_sets) - 1), j \in 0..(Len(arch.chunk_sets) - 1) :
          i # j => chunk_set_tags(arch, i) # chunk_set_tags(arch, j)

\* C10: after every public operation, merge included, every tag storage of every
\* archetype is as long as the archetype has chunk-sets.
C10_TagStorageLengths ==
    \A w \in worlds :
       \A a \in 1..Len(storage[w].archetypes) : validate(storage[w].archetypes[a])

\* every chunk of a storage, with the archetype it lies in
chunks_of(st) ==
    {x \in [arch : 1..Len(st.archetypes), set : 1..MaxSets, chunk : 1..MaxChunks] :
        /\ x.set <= Len(st.archetypes[x.arch].chunk_sets)
        /\ x.chunk <= Len(st.archetypes[x.arch].chunk_sets[x.set])}

chunk_of(st, x) == st.archetypes[x.arch].chunk_sets[x.set][x.chunk]

C12_LazyAllocation ==
    LET st == storage[1] IN
    /\ \A a \in 1..Len(st.archetypes) :
          \A k \in 1..Len(st.archetypes[a].chunk_sets) :
             LET got == get_free_chunk(st.archetypes[a], k - 1)
                 chunk == got.arch.chunk_sets[k][got.index + 1]
             IN  /\ got.index = Len(st.archetypes[a].chunk_sets[k]) => ~is_allocated(chunk)
                 /\ is_allocated(write(chunk))
    /\ \A x \in chunks_of(st) :
          LET chunk == chunk_of(st, x) IN
          /\ ~is_empty(chunk) => is_allocated(chunk)
          /\ is_empty(chunk) => ~is_allocated(chunk) /\ is_allocated(write(chunk))
          /\ \A i \in 0..(Len(chunk.entities) - 1) :
                LET r == swap_remove(chunk, i, TRUE) IN
                is_allocated(r.chunk) = ~is_empty(r.chunk)

\* C12 witness: a chunk whose Pos slice was written and that holds no entity
\* now (its last entity was removed) lies next to a chunk that holds one.
C12_Witness ==
    /\ \E x \in chunks_of(storage[1]) :
          LET chunk == chunk_of(storage[1], x) IN
          /\ is_empty(chunk)
          /\ chunk.component_info["Pos"].version > 0
          /\ ~is_allocated(chunk)
    /\ \E x \in chunks_of(storage[1]) : ~is_empty(chunk_of(storage[1], x))

\* C13: the version of a component accessor increments on every mutation of its
\* slice: on each push, on each swap_remove that moves the last element into the
\* removed slot, and on each mutable access; and the changed flag is true after
\* each of them.
C13_VersionIncrements ==
    \A x \in chunks_of(storage[1]) :
       LET chunk == chunk_of(storage[1], x) IN
       \A t \in DOMAIN chunk.component_info :
          LET accessor == chunk.component_info[t] IN
          /\ \A n \in ComponentValues :
                /\ push_raw(accessor, component_value(t, n)).version = accessor.version + 1
                /\ push_raw(accessor, component_value(t, n)).changed
          /\ data_raw_mut(accessor).version = accessor.version + 1
          /\ data_raw_mut(accessor).changed
          /\ \A i \in 0..(Len(chunk.entities) - 2) :
                LET r == swap_remove(chunk, i, TRUE).chunk.component_info[t] IN
                /\ r.version = accessor.version + 1
                /\ r.changed

\* C14: World::defrag with any budget changes neither the set of live entities
\* nor, for a live entity, any component or tag value that get_component and
\* get_tag read; an entity it relocates stays in its archetype and chunk-set.
C14_DefragInvariance ==
    LET st == storage[1]
        al == entity_allocator[1]
    IN  \A budget \in Budgets :
           LET r == world_defrag(st, al, defrag_progress[1], budget) IN
           /\ Live(r.al) = Live(al)
           /\ \A e \in Live(al) :
                 /\ view(r.st, r.al, e) = view(st, al, e)
                 /\ get_location(r.al, e.index).archetype = get_location(al, e.index).archetype
                 /\ get_location(r.al, e.index).set = get_location(al, e.index).set

\* C14 witness: a world whose defrag relocates a live entity
C14_Witness ==
    LET st == storage[1]
        al == entity_allocator[1]
        r == world_defrag(st, al, defrag_progress[1], -1)
    IN  /\ r.panic = "none"
        /\ \E e \in Live(al) : get_location(r.al, e.index) # get_location(al, e.index)

\* calls of defrag(Some(k)) in a row that are tried
DefragCalls == 4

\* in every chunk-set all chunks before the last non-empty chunk are full
packed(st) ==
    \A a \in 1..Len(st.archetypes) :
       \A k \in 1..Len(st.archetypes[a].chunk_sets) :
          \A c \in 1..(occupied_len(st.archetypes[a].chunk_sets[k]) - 1) :
             is_full(st.archetypes[a].chunk_sets[k][c])

\* the world after n calls of defrag(Some(k)); r = [st, al, progress, panic]
RECURSIVE defrag_calls(_, _, _)
defrag_calls(r, k, n) ==
    IF n = 0 \/ r.panic # "none"
    THEN r
    ELSE LET d == world_defrag(r.st, r.al, r.progress, k)
         IN  defrag_calls([st |-> d.st, al |-> d.al, progress |-> d.progress,
                           panic |-> d.panic], k, n - 1)

\* C15: from every world of inserted and deleted entities, calls of
\* defrag(Some(k)) with a fixed k >= 1 and no other mutation reach a state in
\* which the occupied prefix of every chunk-set is fully packed, and the next
\* defrag call moves nothing.
C15_DefragConverges ==
    \A k \in 1..MaxBudget :
       \E n \in 0..DefragCalls :
          LET r == defrag_calls([st |-> storage[1], al |-> entity_allocator[1],
                                 progress |-> defrag_progress[1], panic |-> "none"], k, n)
          IN  /\ r.panic = "none"
              /\ packed(r.st)
              /\ world_defrag(r.st, r.al, r.progress, k).moves = 0

\* C16: one call defrag(Some(k)) relocates at most k entities over all archetypes
\* and chunk-sets, and defrag(Some(0)) relocates none.
C16_DefragBudget ==
    LET st == storage[1]
        al == entity_allocator[1]
    IN  \A k \in 0..MaxBudget :
           LET r == world_defrag(st, al, defrag_progress[1], k) IN
           /\ r.moves <= k
           /\ Cardinality({e \in Live(al) :
                              get_location(r.al, e.index) # get_location(al, e.index)}) <= k

\* C16 witness: a world in which defrag(None) relocates two entities of two
\* chunk-sets and defrag(Some(1)) relocates one
C16_Witness ==
    LET st == storage[1]
        al == entity_allocator[1]
        all == world_defrag(st, al, defrag_progress[1], -1)
        one == world_defrag(st, al, defrag_progress[1], 1)
    IN  /\ all.panic = "none" /\ one.panic = "none"
        /\ \E e, f \in Live(al) :
              /\ get_location(al, e.index).set # get_location(al, f.index).set
              /\ get_location(all.al, e.index) # get_location(al, e.index)
              /\ get_location(all.al, f.index) # get_location(al, f.index)
        /\ Cardinality({e \in Live(al) :
                           get_location(one.al, e.index) # get_location(al, e.index)}) = 1

\* C17: for two worlds of one universe, after w1.merge(w2) every entity that was
\* live in w1 or in w2 is live in w1, and get_component and get_tag on w1 return
\* the component and tag values it had before the merge.
C17_MergePreserves ==
    2 \in worlds =>
    \A m \in returned(world_merge(storage[1], entity_allocator[1],
                                  storage[2], entity_allocator[2])) :
       \A w \in {1, 2} :
          \A e \in Live(entity_allocator[w]) :
             /\ is_alive(m.al, e)
             /\ view(m.st, m.al, e) = view(storage[w], entity_allocator[w], e)

\* the entity is not live, or the archetype its location names has no component t
no_component(st, al, e, t) ==
    \/ ~is_alive(al, e)
    \/ /\ get_location(al, e.index) # NoLocation
       /\ ~Contains(archetype_of(st, al, e).desc.components, t)

\* the entity is not live, or the archetype its location names has no tag t
no_tag(st, al, e, t) ==
    \/ ~is_alive(al, e)
    \/ /\ get_location(al, e.index) # NoLocation
       /\ ~Contains(archetype_of(st, al, e).desc.tags, t)

\* C18: when the entity is not live or its archetype has no component or tag of
\* the requested type, get_component, get_component_mut, get_component_changed
\* (and its mutable form) and get_tag return None and leave the storage as it was.
C18_AbsentReadsNone ==
    LET st == storage[1]
        al == entity_allocator[1]
    IN  \A e \in Handles(1) \cup {None} :
           /\ \A t \in ComponentTypeIds :
                 no_component(st, al, e, t) =>
                    /\ get_component(st, al, e, t) = NoValue
                    /\ get_component_mut(st, al, e, t) = [value |-> NoValue, st |-> st]
                    /\ \A mark_unchanged, mutable \in BOOLEAN :
                          get_component_changed(st, al, e, t, mark_unchanged, mutable)
                             = [value |-> NoValue, st |-> st]
           /\ \A t \in TagTypeIds :
                 no_tag(st, al, e, t) => get_tag(st, al, e, t) = NoValue

\* a stale handle whose index a live entity with a changed Pos reuses, and a live
\* entity whose archetype has no Scale
C18_Witness ==
    LET st == storage[1]
        al == entity_allocator[1]
    IN  \E e \in Handles(1) :
           /\ ~is_alive(al, e)
           /\ \E live \in Live(al) :
                 /\ live.index = e.index
                 /\ get_component(st, al, live, "Pos") # NoValue
                 /\ chunk_at(st, get_location(al, live.index)).component_info["Pos"].changed
                 /\ no_component(st, al, live, "Scale")
                 /\ no_tag(st, al, live, "Static")

\* C19: when the Pos or Scale slice of a live entity's chunk is borrowed
\* incompatibly (a shared reference is out and get_component_mut is called, or an
\* exclusive reference is out and get_component is called), the call returns
\* None, and the storage, with the accessor's version and changed flag, is as
\* it was.
C19_IncompatibleBorrowNone ==
    LET st == storage[1]
        al == entity_allocator[1]
        cells == borrow_state[1]
    IN  \A e \in Live(al) :
           \A t \in ComponentTypeIds :
              reaches_accessor(st, al, e, t) =>
                 LET count == borrow_count(cells, cell_of(get_location(al, e.index), t))
                     shared == world_get_component(st, al, cells, e, t)
                     exclusive == world_get_component_mut(st, al, cells, e, t)
                 IN  /\ count > 0 =>
                          /\ exclusive.panic = "none"
                          /\ exclusive.value = NoValue
                          /\ exclusive.st = st
                     /\ count < 0 =>
                          /\ shared.panic = "none"
                          /\ shared.value = NoValue
                          /\ shared.st = st

\* C20: insert(tags, components) with n component tuples creates exactly n new
\* live entities and returns exactly those n entities in insertion order;
\* entities of earlier insert calls are not in the returned slice; the batch
\* lies in one chunk-set, and in several of its chunks when n is larger than a
\* chunk's capacity.
C20_InsertReturnsBatch ==
    LET st == storage[1]
        al == entity_allocator[1]
    IN  \A tags \in {f \in TagSets : DOMAIN f = {"Model"}}, layout \in Layouts :
           \A items \in Batches(layout, Deep.entities) :
              LET r == world_insert(st, al, universe, 1, tags, layout, items)
                  slice == r.al.buffer
                  n == Len(items)
                  location(i) == get_location(r.al, slice[i].index)
              IN  /\ Len(slice) = n
                  /\ \A i, j \in 1..n : slice[i] = slice[j] => i = j
                  /\ \A i \in 1..n :
                        /\ slice[i] \notin Live(al)
                        /\ is_alive(r.al, slice[i])
                        /\ view(r.st, r.al, slice[i]) = inserted_view(tags, layout, items[i])
                        /\ location(i).archetype = location(1).archetype
                        /\ location(i).set = location(1).set
                  /\ Live(r.al) = Live(al) \cup Range(slice)
                  /\ Cardinality(Live(r.al)) = Cardinality(Live(al)) + n
                  /\ n > r.st.archetypes[location(1).archetype + 1].capacity =>
                        \E i \in 1..n : location(i).chunk # location(1).chunk

\* a batch of two entities returned by insert that lies in two chunks of one
\* chunk-set, in a world that holds an entity of an earlier insert
C20_Witness ==
    LET st == storage[1]
        al == entity_allocator[1]
        slice == al.buffer
    IN  /\ Len(slice) = 2
        /\ slice[1] \in Live(al) /\ slice[2] \in Live(al)
        /\ Live(al) \ Range(slice) # {}
        /\ get_location(al, slice[1].index).archetype = get_location(al, slice[2].index).archetype
        /\ get_location(al, slice[1].index).set = get_location(al, slice[2].index).set
        /\ get_location(al, slice[1].index).chunk # get_location(al, slice[2].index).chunk
        /\ get_component(st, al, slice[1], "Scale") = component_value("Scale", 1)
        /\ get_component(st, al, slice[2], "Scale") = component_value("Scale", 2)

\* C21: add_component(e, v) on a live entity that has a component of type T
\* overwrites in place: get_component::<T>(e) is v, and e's location, the
\* archetypes, chunk-sets and chunks, and every other entity's location and
\* component values are as before.
C21_OverwriteInPlace ==
    LET st == storage[1]
        al == entity_allocator[1]
    IN  \A e \in Live(al), t \in ComponentTypeIds, n \in ComponentValues :
           get_component(st, al, e, t) # NoValue =>
              \A m \in world_add_component(st, al, 1, e, t, component_value(t, n)) :
                 /\ m.panic = "none"
                 /\ get_component(m.st, m.al, e, t) = component_value(t, n)
                 /\ m.al.locations = al.locations
                 /\ Live(m.al) = Live(al)
                 /\ Len(m.st.archetypes) = Len(st.archetypes)
                 /\ chunks_of(m.st) = chunks_of(st)
                 /\ \A o \in Live(al), u \in ComponentTypeIds :
                       (o # e \/ u # t) =>
                          get_component(m.st, m.al, o, u) = get_component(st, al, o, u)
                 /\ \A o \in Live(al) : tags_of(m.st, m.al, o) = tags_of(st, al, o)

\* an entity whose Scale(11) was overwritten with Scale(12) in its chunk, beside
\* another live entity
C21_Witness ==
    LET st == storage[1]
        al == entity_allocator[1]
    IN  \E e \in Live(al) :
           /\ get_component(st, al, e, "Pos") = component_value("Pos", 1)
           /\ get_component(st, al, e, "Scale") = component_value("Scale", 2)
           /\ chunk_at(st, get_location(al, e.index)).component_info["Scale"].version = 2
           /\ Live(al) \ {e} # {}

\* C22: remove_component::<T>(e) on an entity without component T, and
\* remove_tag::<T>(e) on an entity without tag T, change nothing: no location, no
\* archetype, chunk-set or chunk, no component value, version or changed flag.
C22_RemoveAbsentNoOp ==
    LET st == storage[1]
        al == entity_allocator[1]
    IN  \A e \in Handles(1) :
           /\ \A t \in ComponentTypeIds :
                 no_component(st, al, e, t) =>
                    \A m \in world_remove_component(st, al, 1, e, t) :
                       m.panic = "none" /\ m.st = st /\ m.al = al
           /\ \A t \in TagTypeIds :
                 no_tag(st, al, e, t) =>
                    \A m \in world_remove_tag(st, al, 1, e, t) :
                       m.panic = "none" /\ m.st = st /\ m.al = al

\* a live entity with neither a Scale component nor a Static tag, beside an
\* entity that has both
C22_Witness ==
    LET st == storage[1]
        al == entity_allocator[1]
    IN  \E e \in Live(al) :
           /\ get_component(st, al, e, "Pos") # NoValue
           /\ no_component(st, al, e, "Scale")
           /\ no_tag(st, al, e, "Static")
           /\ \E o \in Live(al) :
                 /\ get_component(st, al, o, "Scale") # NoValue
                 /\ get_tag(st, al, o, "Static") # NoValue

\* C23: add_tag(e, v2) on a live entity that has tag T with value v1 replaces
\* the value for e only: get_tag::<T>(e) is v2, e's other tags and its
\* components are as before, and every other entity of e's chunk-set still
\* reads v1.
C23_ReplaceTag ==
    LET st == storage[1]
        al == entity_allocator[1]
    IN  \A e \in Live(al), t \in TagTypeIds :
           \A v2 \in TagValues(t) :
              get_tag(st, al, e, t) # NoValue =>
              \A m \in returned(world_add_tag(st, al, 1, e, t, v2)) :
                 /\ get_tag(m.st, m.al, e, t) = v2
                 /\ \A u \in TagTypeIds \ {t} :
                       get_tag(m.st, m.al, e, u) = get_tag(st, al, e, u)
                 /\ components_of(m.st, m.al, e) = components_of(st, al, e)
                 /\ \A o \in Live(al) \ {e} :
                       (/\ get_location(al, o.index).archetype = get_location(al, e.index).archetype
                        /\ get_location(al, o.index).set = get_location(al, e.index).set)
                       => get_tag(m.st, m.al, o, t) = get_tag(st, al, e, t)

\* the chunk-set a move put the entity in holds `values`, one per tag type
target_set_holds(m, values) ==
    LET arch == m.st.archetypes[m.target.archetype + 1]
    IN  /\ DOMAIN arch.tags = DOMAIN values
        /\ \A t \in DOMAIN values :
              /\ m.target.set < Len(arch.tags[t])
              /\ arch.tags[t][m.target.set + 1] = values[t]

\* C24: the chunk-set a structural move resolves, found or created, holds for
\* every retained tag type the value stored at the source location's chunk-set
\* ordinal and for every added tag the value provided.
C24_TargetChunkSetTags ==
    LET st == storage[1]
        al == entity_allocator[1]
    IN  \A e \in Live(al) :
           LET source == get_location(al, e.index)
               held == [t \in DOMAIN archetype_of(st, al, e).tags |->
                           archetype_of(st, al, e).tags[t][source.set + 1]]
           IN  /\ \A t \in ComponentTypeIds :
                     get_component(st, al, e, t) = NoValue =>
                     \A m \in returned(world_move_entity(st, al, 1, e, <<t>>, <<>>, <<>>, <<>>)) :
                        target_set_holds(m, held)
               /\ \A t \in RemovedTypes :
                     get_component(st, al, e, t) # NoValue =>
                     \A m \in returned(world_move_entity(st, al, 1, e, <<>>, <<t>>, <<>>, <<>>)) :
                        target_set_holds(m, held)
               /\ \A t \in TagTypeIds \ DOMAIN held :
                     \A v \in TagValues(t) :
                        \A m \in returned(world_move_entity(st, al, 1, e, <<>>, <<>>,
                                                            [x \in {t} |-> v], <<>>)) :
                           target_set_holds(m, Override(held, [x \in {t} |-> v]))
               /\ \A t \in DOMAIN held :
                     \A m \in returned(world_move_entity(st, al, 1, e, <<>>, <<>>, <<>>, <<t>>)) :
                        target_set_holds(m, Restrict(held, DOMAIN held \ {t}))

\* chunk-set j of `arch` (one-based) holds `chunk` and the tag values of
\* chunk-set i of `other`
merged_into(arch, j, chunk, other, i) ==
    /\ \E x \in 1..Len(arch.chunk_sets[j]) : arch.chunk_sets[j][x] = chunk
    /\ \A t \in DOMAIN other.tags :
          j <= Len(arch.tags[t]) /\ arch.tags[t][j] = other.tags[t][i]

\* C25: ArchetypeData::merge(other) appends the chunks of each chunk-set of other
\* to the chunk-set of self that has equal tag values, at that set's ordinal in
\* self, and otherwise appends the set with its tag values: every merged chunk
\* lies in a chunk-set of self whose tag values are those it had in other.
C25_MergeChunkSets ==
    2 \in worlds =>
    \A a \in 1..Len(storage[1].archetypes), b \in 1..Len(storage[2].archetypes) :
       LET self == storage[1].archetypes[a]
           other == storage[2].archetypes[b]
       IN  self.desc = other.desc =>
           \A m \in returned(archetype_merge(self, other)) :
              \A i \in 1..Len(other.chunk_sets) :
                 \A c \in 1..Len(other.chunk_sets[i]) :
                    /\ \E j \in 1..Len(m.arch.chunk_sets) :
                          merged_into(m.arch, j, other.chunk_sets[i][c], other, i)
                    /\ \A k \in 1..Len(self.chunk_sets) :
                          (\A t \in DOMAIN self.tags : self.tags[t][k] = other.tags[t][i])
                          => merged_into(m.arch, k, other.chunk_sets[i][c], other, i)

\* C26: get_free_chunk(set) returns the index of the lowest-index chunk of the
\* set that is not full and changes nothing; when every chunk is full, or there
\* is none, it appends one empty unallocated chunk and returns its index; the
\* chunk returned is never full and the chunks there were are not modified.
C26_GetFreeChunk ==
    \A a \in 1..Len(storage[1].archetypes) :
       LET arch == storage[1].archetypes[a] IN
       \A s \in 1..Len(arch.chunk_sets) :
          LET chunks == arch.chunk_sets[s]
              r == get_free_chunk(arch, s - 1)
              after == r.arch.chunk_sets[s]
              free_ones == {i \in 1..Len(chunks) : Len(chunks[i].entities) < chunks[i].capacity}
          IN  /\ r.index >= 0 /\ r.index < Len(after)
              /\ Len(after[r.index + 1].entities) < after[r.index + 1].capacity
              /\ SubSeq(after, 1, Len(chunks)) = chunks
              /\ \A o \in 1..Len(arch.chunk_sets) : o # s => r.arch.chunk_sets[o] = arch.chunk_sets[o]
              /\ r.arch.tags = arch.tags
              /\ free_ones # {} =>
                    /\ r.arch = arch
                    /\ r.index + 1 \in free_ones
                    /\ \A i \in free_ones : r.index + 1 <= i
              /\ free_ones = {} =>
                    /\ Len(after) = Len(chunks) + 1
                    /\ r.index = Len(chunks)
                    /\ after[r.index + 1].entities = <<>>
                    /\ ~after[r.index + 1].allocated
                    /\ \A t \in DOMAIN after[r.index + 1].component_info :
                          after[r.index + 1].component_info[t].data = <<>>

\* a chunk-set with a full chunk followed by two chunks that are not full, and a
\* chunk-set whose chunks are all full
C26_Witness ==
    \E a \in 1..Len(storage[1].archetypes) :
       LET arch == storage[1].archetypes[a] IN
       /\ \E s \in 1..Len(arch.chunk_sets) :
             /\ Len(arch.chunk_sets[s]) = 3
             /\ is_full(arch.chunk_sets[s][1])
             /\ ~is_full(arch.chunk_sets[s][2])
             /\ ~is_full(arch.chunk_sets[s][3])
       /\ \E s \in 1..Len(arch.chunk_sets) :
             /\ Len(arch.chunk_sets[s]) > 0
             /\ \A c \in 1..Len(arch.chunk_sets[s]) : is_full(arch.chunk_sets[s][c])

\* C27: ComponentStorage::move_entity(target, index) with a target that is not
\* full appends the entity to the target with its value of each component type
\* both chunks have, returns the entity swapped into index (None when index was
\* the last slot), shortens the source by one and lengthens the target by one;
\* and each stored value is dropped exactly once: a move drops the values whose
\* type the target lacks and no other, a delete drops the removed entity's
\* values and no other, and the drop of a chunk drops the values it stores.
C27_MoveAndDropOnce ==
    LET st == storage[1] IN
    /\ \A x \in chunks_of(st) :
          LET source == chunk_of(st, x) IN
          /\ storage_dropped(source) = stored(source)
          /\ \A index \in 0..(chunk_len(source) - 1) :
                /\ LET r == swap_remove(source, index, TRUE)
                       dropped == swap_remove_dropped(source, index, TRUE)
                   IN  /\ stored(source) = stored(r.chunk) \cup dropped
                       /\ stored(r.chunk) \cap dropped = {}
                       /\ dropped = {v \in stored(source) : v[1] = source.entities[index + 1]}
                /\ \A y \in chunks_of(st) \ {x} :
                      LET target == chunk_of(st, y)
                          entity == source.entities[index + 1]
                          m == chunk_move_entity(source, target, index)
                          dropped == move_entity_dropped(source, target, index)
                          before == stored(source) \cup stored(target)
                          after == stored(m.source) \cup stored(m.target)
                      IN  ~is_full(target) =>
                          /\ m.target.entities = Append(target.entities, entity)
                          /\ \A t \in DOMAIN target.component_info :
                                m.target.component_info[t].data =
                                   IF t \in DOMAIN source.component_info
                                   THEN Append(target.component_info[t].data,
                                               source.component_info[t].data[index + 1])
                                   ELSE target.component_info[t].data
                          /\ m.swapped = IF index = chunk_len(source) - 1 THEN None
                                         ELSE source.entities[chunk_len(source)]
                          /\ chunk_len(m.source) = chunk_len(source) - 1
                          /\ chunk_len(m.target) = chunk_len(target) + 1
                          /\ ~Contains(m.source.entities, entity)
                          /\ before = after \cup dropped
                          /\ after \cap dropped = {}
                          /\ dropped = {v \in stored(source) :
                                           /\ v[1] = entity
                                           /\ v[2] \notin DOMAIN target.component_info}

\* a chunk of two entities, from which a move of the first swaps the second in,
\* and a chunk with Pos and Scale beside a chunk without Scale that is not full,
\* into which a move drops the Scale
C27_Witness ==
    LET st == storage[1] IN
    /\ \E x \in chunks_of(st) : chunk_len(chunk_of(st, x)) = 2
    /\ \E x, y \in chunks_of(st) :
          /\ x # y
          /\ chunk_len(chunk_of(st, x)) = 1
          /\ DOMAIN chunk_of(st, x).component_info = {"Pos", "Scale"}
          /\ DOMAIN chunk_of(st, y).component_info = {"Pos"}
          /\ ~is_full(chunk_of(st, y))

\* budgets a defrag of one chunk-set or archetype is tried with
DefragMoves == 2

\* some chunk is a cursor: every chunk before it is full, every chunk after it empty
compacted(chunks) ==
    \E cursor \in 1..Len(chunks) :
       /\ \A k \in 1..(cursor - 1) : is_full(chunks[k])
       /\ \A k \in (cursor + 1)..Len(chunks) : is_empty(chunks[k])

\* a chunk that is not full lies before a chunk that is not empty
move_needed(chunks) ==
    \E i, j \in 1..Len(chunks) : i < j /\ ~is_full(chunks[i]) /\ ~is_empty(chunks[j])

\* C28: Chunkset::defrag returns true only when every chunk before the cursor
\* chunk is full and every chunk after it is empty, and false only when the
\* budget is 0 and a move was still needed; ArchetypeData::defrag returns false
\* as soon as one chunk-set returns false, leaving the later chunk-sets
\* untouched, and true only when all its chunk-sets returned true.
C28_DefragReturnValue ==
    LET st == storage[1]
        al == entity_allocator[1]
    IN  \A a \in 1..Len(st.archetypes), budget \in 0..DefragMoves :
           LET arch == st.archetypes[a]
               r == archetype_defrag(arch, budget, al)
               sets == 1..Len(arch.chunk_sets)
           IN  /\ \A s \in sets :
                     LET d == chunkset_defrag(arch.chunk_sets[s], budget, al, a - 1, s - 1)
                     IN  d.panic = "none" =>
                         /\ d.complete => compacted(d.chunks)
                         /\ ~d.complete => d.budget = 0 /\ move_needed(d.chunks)
               /\ r.panic = "none" =>
                     /\ r.complete => \A s \in sets : compacted(r.arch.chunk_sets[s])
                     /\ ~r.complete =>
                           \E s \in sets :
                              /\ r.budget = 0
                              /\ move_needed(r.arch.chunk_sets[s])
                              /\ \A k \in sets : k < s => compacted(r.arch.chunk_sets[k])
                              /\ \A k \in sets : k > s =>
                                    r.arch.chunk_sets[k] = arch.chunk_sets[k]

\* an archetype with two chunk-sets that each need a move: with a budget of 1
\* the first is completed and the second is left untouched and incomplete
C28_Witness ==
    LET st == storage[1]
        al == entity_allocator[1]
    IN  \E a \in 1..Len(st.archetypes) :
           LET arch == st.archetypes[a]
               r == archetype_defrag(arch, 1, al)
           IN  /\ Len(arch.chunk_sets) = 2
               /\ move_needed(arch.chunk_sets[1])
               /\ move_needed(arch.chunk_sets[2])
               /\ r.panic = "none" /\ ~r.complete
               /\ r.arch.chunk_sets[1] # arch.chunk_sets[1]

\* C29: every move of Chunkset::defrag takes the last entity of the source
\* chunk, so move_entity returns no swapped entity; the target chunk's index is
\* strictly lower than the source's; the target is not full when the move is
\* made; and on_moved is called with that entity, the target chunk's index and
\* the slot target_len - 1.
C29_DefragMoves ==
    LET st == storage[1]
        al == entity_allocator[1]
    IN  \A a \in 1..Len(st.archetypes), budget \in 0..DefragMoves :
           \A s \in 1..Len(st.archetypes[a].chunk_sets) :
              LET d == chunkset_defrag(st.archetypes[a].chunk_sets[s], budget, al, a - 1, s - 1)
              IN  /\ Len(d.log) = d.moves
                  /\ \A k \in 1..Len(d.log) :
                        LET move == d.log[k] IN
                        /\ move.index = move.source_len - 1
                        /\ move.swapped = None
                        /\ move.target < move.source
                        /\ move.target_len < move.capacity
                        /\ move.on_moved = <<move.entity, move.target, move.target_len>>
                        /\ d.chunks[move.target + 1].entities[move.target_len + 1] = move.entity
                        /\ get_location(d.al, move.entity.index) =
                              EntityLocation_new(a - 1, s - 1, move.target, move.target_len)

\* a chunk-set whose defrag moves two entities, from two source chunks
C29_Witness ==
    LET st == storage[1]
        al == entity_allocator[1]
    IN  \E a \in 1..Len(st.archetypes) :
           \E s \in 1..Len(st.archetypes[a].chunk_sets) :
              LET d == chunkset_defrag(st.archetypes[a].chunk_sets[s], DefragMoves, al,
                                       a - 1, s - 1)
              IN  /\ d.panic = "none"
                  /\ Len(d.log) = 2
                  /\ d.log[1].source # d.log[2].source

\* every chunk-set of archetype i (zero-based) of st is compacted
archetype_compacted(st, i) ==
    \A s \in 1..Len(st.archetypes[i + 1].chunk_sets) :
       compacted(st.archetypes[i + 1].chunk_sets[s])

\* C30: a call of World::defrag visits each archetype at most once; when it
\* returns, the budget is 0 or the cursor is back where the call started;
\* defrag_progress is kept between calls and is below the archetype count (0
\* when there is none); it advances modulo the archetype count past archetypes
\* that reported complete only, so an archetype left incomplete is the one the
\* next call resumes.
C30_DefragProgress ==
    LET st == storage[1]
        al == entity_allocator[1]
        n == Len(st.archetypes)
        start == defrag_progress[1]
    IN  /\ start >= 0
        /\ IF n = 0 THEN start = 0 ELSE start < n
        /\ \A budget \in Budgets \cup 0..DefragMoves :
              LET r == world_defrag(st, al, start, budget) IN
              /\ r.visits <= n
              /\ IF n = 0 THEN r.progress = 0 ELSE r.progress >= 0 /\ r.progress < n
              /\ (r.panic = "none" /\ n > 0) =>
                    /\ r.visits >= 1
                    /\ r.budget = 0 \/ r.progress = start
                    /\ \E k \in {r.visits - 1, r.visits} :
                          /\ r.progress = (start + k) % n
                          /\ \A j \in 0..(k - 1) : archetype_compacted(r.st, (start + j) % n)
                          /\ k < r.visits =>
                                /\ r.budget = 0
                                /\ ~archetype_compacted(r.st, r.progress)

\* a world of two archetypes whose cursor an earlier call left at archetype 1,
\* which needs a move: defrag(Some(0)) leaves the cursor there, defrag(Some(1))
\* makes the move and wraps the cursor to 0
C30_Witness ==
    LET st == storage[1]
        al == entity_allocator[1]
        none == world_defrag(st, al, defrag_progress[1], 0)
        one == world_defrag(st, al, defrag_progress[1], 1)
    IN  /\ Len(st.archetypes) = 2
        /\ defrag_progress[1] = 1
        /\ ~archetype_compacted(st, 1)
        /\ none.panic = "none" /\ none.progress = 1 /\ none.moves = 0
        /\ one.panic = "none" /\ one.progress = 0 /\ one.moves = 1

\* C31: in no reachable world does World::defrag call Chunkset::defrag on a
\* chunk-set whose occupied prefix is empty, so `len - 1` never underflows and
\* no call of defrag panics.
C31_NoEmptyChunkSetDefrag ==
    \A budget \in Budgets :
       world_defrag(storage[1], entity_allocator[1], defrag_progress[1], budget).panic = "none"

\* C32: after World::merge every archetype's id index is its position in the
\* world's archetype vector, and every chunk's ChunkId is the id of the
\* archetype that holds it, the ordinal of its chunk-set and the ordinal of the
\* chunk in that set.
C32_IdsNamePositions ==
    \A w \in worlds :
       \A x \in chunks_of(storage[w]) :
          LET arch == storage[w].archetypes[x.arch] IN
          /\ arch.id[2] = x.arch - 1
          /\ chunk_of(storage[w], x).id = <<arch.id, x.set - 1, x.chunk - 1>>


\* the archetype whose layout was planned, and the end of the slice of its
\* i-th component
planned_layout == component_layout.archetype[1]
slice_end(layout, i) ==
    layout.data_layout[i].offset + layout.data_layout[i].meta.size * layout.capacity

\* C33: the layout planned for a description lists its components in
\* registration order; every offset is a multiple of 64 and of the component's
\* alignment; the slice of a component ends at or before the offset of the next
\* one; a zero-sized component has an empty slice and the next component starts
\* at the first aligned address from its offset on; the allocation has the size
\* of the final offset and alignment 64.
C33_LayoutOffsets ==
    Len(component_layout.archetype) = 1 =>
       LET desc == component_layout.desc
           layout == planned_layout
           n == Len(desc)
       IN  /\ Len(layout.data_layout) = n
           /\ \A i \in 1..n :
                 /\ layout.data_layout[i].type = i
                 /\ layout.data_layout[i].meta = desc[i]
                 /\ layout.data_layout[i].offset % 64 = 0
                 /\ layout.data_layout[i].offset % desc[i].align = 0
           /\ \A i \in 1..(n - 1) :
                 /\ slice_end(layout, i) <= layout.data_layout[i + 1].offset
                 /\ desc[i].size = 0 =>
                       /\ slice_end(layout, i) = layout.data_layout[i].offset
                       /\ layout.data_layout[i + 1].offset - layout.data_layout[i].offset
                             < Max(64, desc[i + 1].align)
           /\ layout.alloc_layout.size = (IF n = 0 THEN 0 ELSE slice_end(layout, n))
           /\ layout.alloc_layout.align = 64
           /\ (\A i \in 1..n : desc[i].size = 0) => layout.alloc_layout.size = 0

\* a planned layout of three components: a slice that ends off the alignment
\* floor, then a zero-sized component, then one aligned to 128
C33_Witness ==
    /\ Len(component_layout.archetype) = 1
    /\ Len(component_layout.desc) = 3
    /\ slice_end(planned_layout, 1) % 64 # 0
    /\ slice_end(planned_layout, 1) < planned_layout.data_layout[2].offset
    /\ component_layout.desc[2].size = 0
    /\ component_layout.desc[3].align = 128
    /\ component_layout.desc[3].size > 0

\* C34: the chunk capacity of an archetype is
\* max(1, 16384 / max(largest component size, size of Entity)): at least 1, 1 when
\* a component is larger than 16384 bytes, 16384 / size of Entity when there is no
\* component or only zero-sized ones; every chunk allocated for the archetype,
\* and every accessor of it, has that capacity.
C34_ChunkCapacity ==
    Len(component_layout.archetype) = 1 =>
       LET desc == component_layout.desc
           largest == MaxOf({desc[i].size : i \in 1..Len(desc)})
           capacity == planned_layout.capacity
       IN  /\ capacity = Max(1, 16384 \div Max(largest, SizeOfEntity))
           /\ capacity >= 1
           /\ largest > 16384 => capacity = 1
           /\ largest = 0 => capacity = 16384 \div SizeOfEntity
           /\ \A c \in 1..Len(component_layout.chunks) :
                 /\ component_layout.chunks[c].capacity = capacity
                 /\ \A i \in 1..Len(desc) :
                       component_layout.chunks[c].component_info[i].capacity = capacity

\* two chunks allocated for an archetype with a component larger than a chunk
C34_Witness ==
    /\ Len(component_layout.archetype) = 1
    /\ Len(component_layout.chunks) = 2
    /\ \E i \in 1..Len(component_layout.desc) : component_layout.desc[i].size > MAX_CHUNK_SIZE
    /\ \E i \in 1..Len(component_layout.desc) : component_layout.desc[i].size = 0

\* C35: the component-type and the tag-type signature tables of a world have as
\* many slices as the world has archetypes, and slice i of each lists the type
\* ids of the description of the archetype at index i.
C35_SignatureTables ==
    \A w \in worlds :
       /\ Len(storage[w].component_types) = Len(storage[w].archetypes)
       /\ Len(storage[w].tag_types) = Len(storage[w].archetypes)
       /\ \A i \in 1..Len(storage[w].archetypes) :
             /\ storage[w].component_types[i] = storage[w].archetypes[i].desc.components
             /\ storage[w].tag_types[i] = storage[w].archetypes[i].desc.tags

\* a world with an archetype that alloc_archetype made and one that merge pushed
C35_Witness ==
    /\ worlds = {1}
    /\ Len(storage[1].archetypes) = 2
    /\ storage[1].archetypes[1].id[1] = 1
    /\ storage[1].archetypes[2].id[1] = 2
    /\ storage[1].component_types[1] # storage[1].component_types[2]

\* no two archetypes of the storage have the same set of component types and
\* the same set of tag types
distinct_signatures(st) ==
    \A i, j \in 1..Len(st.archetypes) :
       (/\ Range(st.archetypes[i].desc.components) = Range(st.archetypes[j].desc.components)
        /\ Range(st.archetypes[i].desc.tags) = Range(st.archetypes[j].desc.tags))
       => i = j

\* C36: no two archetypes of a world have the same set of component types and
\* the same set of tag types, in the worlds reached and after every
\* add_component, remove_component, add_tag and remove_tag that returns: a call
\* reuses the archetype of the target signature when there is one.
C36_DistinctSignatures ==
    /\ \A w \in worlds : distinct_signatures(storage[w])
    /\ \A entity \in Handles(1) :
          /\ \A t \in ComponentTypeIds :
                /\ \A m \in returned(world_add_component(storage[1], entity_allocator[1], 1,
                                                          entity, t, component_value(t, 1))) :
                      distinct_signatures(m.st)
                /\ \A m \in returned(world_remove_component(storage[1], entity_allocator[1], 1,
                                                             entity, t)) :
                      distinct_signatures(m.st)
          /\ \A t \in TagTypeIds :
                /\ \A tag \in TagValues(t) :
                      \A m \in returned(world_add_tag(storage[1], entity_allocator[1], 1,
                                                      entity, t, tag)) :
                         distinct_signatures(m.st)
                /\ \A m \in returned(world_remove_tag(storage[1], entity_allocator[1], 1,
                                                       entity, t)) :
                      distinct_signatures(m.st)

\* every move of the outcomes that return puts the entity of index `index` into
\* an archetype, and so into a chunk, other than the one it was in
moves_away(al, index, outcomes) ==
    \A m \in returned(outcomes) :
       LET location == get_location(al, index) IN
       /\ m.target.archetype # location.archetype
       /\ <<m.target.archetype, m.target.set, m.target.chunk>>
             # <<location.archetype, location.set, location.chunk>>

\* C37: in every move that add_component, remove_component, add_tag and
\* remove_tag make, the target chunk lies in another archetype than the chunk
\* the entity is moved out of: the two chunks written together are never one.
C37_TargetArchetypeDiffers ==
    \A entity \in Handles(1) :
       LET st == storage[1]
           al == entity_allocator[1]
       IN  /\ \A t \in ComponentTypeIds :
                 IF get_component(st, al, entity, t) = NoValue
                 THEN moves_away(al, entity.index,
                          world_move_entity(st, al, 1, entity, <<t>>, <<>>, <<>>, <<>>))
                 ELSE moves_away(al, entity.index,
                          world_move_entity(st, al, 1, entity, <<>>, <<t>>, <<>>, <<>>))
           /\ \A t \in TagTypeIds :
                 /\ get_tag(st, al, entity, t) # NoValue =>
                       moves_away(al, entity.index,
                          world_move_entity(st, al, 1, entity, <<>>, <<>>, <<>>, <<t>>))
                 /\ \A r \in returned(world_remove_tag(st, al, 1, entity, t)) :
                       \A tag \in TagValues(t) :
                          moves_away(r.al, entity.index,
                             world_move_entity(r.st, r.al, 1, entity,
                                               <<>>, <<>>, [x \in {t} |-> tag], <<>>))

\* a live entity without Scale in a world that has the archetype add_component
\* moves it to: the move finds its target among the archetypes that exist
C37_Witness ==
    \E entity \in Live(entity_allocator[1]) :
       /\ get_component(storage[1], entity_allocator[1], entity, "Scale") = NoValue
       /\ \E m \in returned(world_move_entity(storage[1], entity_allocator[1], 1, entity,
                                                <<"Scale">>, <<>>, <<>>, <<>>)) :
             /\ Len(m.st.archetypes) = Len(storage[1].archetypes)
             /\ m.target.set = get_location(entity_allocator[1], entity.index).set
             /\ m.target.chunk = get_location(entity_allocator[1], entity.index).chunk

\* every outcome that returns leaves every live entity of the world with the
\* components, the tags and the location it had
live_untouched(st, al, outcomes) ==
    \A m \in returned(outcomes) :
       \A e \in Live(al) :
          /\ is_alive(m.al, e)
          /\ view(m.st, m.al, e) = view(st, al, e)
          /\ get_location(m.al, e.index) = get_location(al, e.index)

\* C38: add_component, add_tag, remove_component and remove_tag called with a
\* handle that is not live, its index free or taken by a newer entity, change
\* the components, the tags, the archetype and the location of no live entity.
C38_StaleHandleChangesNothing ==
    \A entity \in Handles(1) \ Live(entity_allocator[1]) :
       LET st == storage[1]
           al == entity_allocator[1]
       IN  /\ \A t \in ComponentTypeIds :
                 /\ live_untouched(st, al,
                        world_add_component(st, al, 1, entity, t, component_value(t, 2)))
                 /\ live_untouched(st, al, world_remove_component(st, al, 1, entity, t))
           /\ \A t \in TagTypeIds :
                 /\ \A tag \in TagValues(t) :
                       live_untouched(st, al, world_add_tag(st, al, 1, entity, t, tag))
                 /\ live_untouched(st, al, world_remove_tag(st, al, 1, entity, t))

\* the live entities that lie in the chunk of `location`
chunk_mates(st, al, location) ==
    {e \in Live(al) :
        LET at == get_location(al, e.index) IN
        /\ at # NoLocation
        /\ at.archetype = location.archetype
        /\ at.set = location.set
        /\ at.chunk = location.chunk}

\* the changed flag of the accessor of type t in the chunk at `location`
changed_flag(st, location, t) == chunk_at(st, location).component_info[t].changed

\* C39: for a live entity e that has a component of type T,
\* get_component_changed and get_component_changed_mut return the component
\* when the changed flag of the accessor of T in e's chunk is set and None when
\* it is clear; a successful call with mark_unchanged clears the flag, and then
\* the changed readers return None for every entity of the chunk until
\* get_component_mut writes the slice again or an insert pushes onto it; a
\* successful call without
\* mark_unchanged, mutable or not, leaves the flag set.
C39_ChangedReaders ==
    \A e \in Live(entity_allocator[1]), t \in ComponentTypeIds :
       LET st == storage[1]
           al == entity_allocator[1]
           location == get_location(al, e.index)
       IN  get_component(st, al, e, t) # NoValue =>
             \A mark_unchanged, mutable \in BOOLEAN :
                \E r \in {get_component_changed(st, al, e, t, mark_unchanged, mutable)} :
                   IF ~changed_flag(st, location, t)
                   THEN r.value = NoValue /\ r.st = st
                   ELSE /\ r.value = get_component(st, al, e, t)
                        /\ changed_flag(r.st, location, t) = ~mark_unchanged
                        /\ mark_unchanged =>
                              \A other \in chunk_mates(st, al, location) :
                                 /\ \A m2, x2 \in BOOLEAN :
                                       get_component_changed(r.st, al, other, t, m2, x2).value
                                          = NoValue
                                 /\ \A m2, x2 \in BOOLEAN :
                                       get_component_changed(
                                           get_component_mut(r.st, al, other, t).st,
                                           al, e, t, m2, x2).value
                                          = get_component(st, al, e, t)
                        /\ mark_unchanged =>
                              \A tags \in TagSets, layout \in Layouts :
                                 \E ins \in {world_insert(r.st, al, universe, 1, tags, layout,
                                        <<[c \in Range(layout) |-> component_value(c, 1)]>>)} :
                                    Len(chunk_at(ins.st, location).entities)
                                       > Len(chunk_at(r.st, location).entities)
                                    => /\ changed_flag(ins.st, location, t)
                                       /\ get_component_changed(ins.st, ins.al, e, t, FALSE,
                                                                FALSE).value
                                             = get_component(st, al, e, t)

\* a chunk of two live entities whose Pos slice a changed reader marked unchanged
C39_Witness ==
    \E e \in Live(entity_allocator[1]) :
       LET location == get_location(entity_allocator[1], e.index) IN
       /\ get_component(storage[1], entity_allocator[1], e, "Pos") # NoValue
       /\ ~changed_flag(storage[1], location, "Pos")
       /\ Cardinality(chunk_mates(storage[1], entity_allocator[1], location)) = 2

\* C40: a tag storage of a sized type has capacity 4 when created and twice
\* the capacity after a push that found len = capacity, and the capacity it had
\* after any other push; a push adds one to the length and the slice read
\* afterwards is the slice read before with the pushed value appended; a
\* storage of a zero-sized type keeps its capacity and allocates nothing, and
\* its length counts the pushes.
C40_TagStorageGrowth ==
    /\ tag_storage.len = 0 /\ tag_storage.element.size > 0 => tag_storage.capacity = 4
    /\ tag_storage.element.size > 0 =>
          /\ Len(tag_storage.data) = tag_storage.capacity
          /\ tag_storage.len <= tag_storage.capacity
          /\ tag_storage.capacity > 4 => tag_storage.len > tag_storage.capacity \div 2
    /\ \A t \in TagTypeIds :
          TagMeta_of(t) = tag_storage.element =>
             \A value \in TagValues(t) :
                \E r \in {TagStorage_push_raw(tag_storage, value)} :
                   /\ r.panic = "none"
                   /\ r.tags.len = tag_storage.len + 1
                   /\ TagStorage_data_slice(r.tags)
                         = Append(TagStorage_data_slice(tag_storage), value)
                   /\ IF tag_storage.element.size = 0
                      THEN /\ r.tags.capacity = tag_storage.capacity
                           /\ r.tags.data = <<>>
                      ELSE r.tags.capacity =
                              (IF tag_storage.len = tag_storage.capacity
                               THEN 2 * tag_storage.capacity
                               ELSE tag_storage.capacity)

\* a storage of a sized type that has grown twice and holds both tag values
C40_Witness ==
    /\ tag_storage.element.size > 0
    /\ tag_storage.len = 9
    /\ tag_storage.capacity = 16
    /\ TagStorage_data_slice(tag_storage)[1] # TagStorage_data_slice(tag_storage)[5]
====
